---- MODULE Spec2Model ----
(***************************************************************************)
(* Red-black trees rb::Tree<T>: the variant with nullptr links and         *)
(* subtree_size_ counters (the augmented tree) and the variant with a      *)
(* nil_ sentinel node (the sentinel tree).                                 *)
(*                                                                         *)
(* A heap is a function from node addresses to node records.  Every        *)
(* operator below takes the tree as a record [root, h, ...] and returns    *)
(* the tree after the C++ statements it models have run, in the order the  *)
(* source runs them.  Where statements read what earlier statements of     *)
(* the same function wrote, the function is split into operators, each     *)
(* applied to the tree the previous one left.                              *)
(***************************************************************************)
EXTENDS Integers, FiniteSets, Sequences, TLC

\* ---------------------------------------------------------------- bounds
MaxVal == 6      \* Spec, SpecBoth: values stored and queried are 1..MaxVal
MaxDeep == 10    \* SpecDeep: values stored are 1..MaxDeep

Val     == 1..MaxVal
DeepVal == 1..MaxDeep
Addr    == 1..(3 * MaxDeep)      \* addresses operator new may hand out
NULL == 0                        \* nullptr

RED   == "RED"
BLACK == "BLACK"
LEFT  == "LEFT"
RIGHT == "RIGHT"

\* what a call returns when its assert() fails
ASSERT_FAILED == -1

VARIABLES
    root_,      \* augmented tree: Tree::root_
    heap,       \* augmented tree: address -> NodeBase/Node fields
    model,      \* reference set: values inserted and not erased since
    op,         \* the last public call: [name, args]
    ret,        \* what the last public call returned
    cases,      \* labels of the rebalancing branches the last call ran
    sentinel_root,  \* sentinel tree: Tree::root_
    sentinel_heap,  \* sentinel tree: its nodes and its nil_, address -> fields
    input,          \* run_cli: characters of the input stream not yet extracted
    output,         \* run_cli: characters written to the output stream
    error,          \* run_cli: pieces written to the error stream
    first_output,   \* run_cli: its local first_output
    returned,       \* run_cli has returned
    exit_code,      \* run_cli: the value it returned, once returned
    commands,       \* run_cli: iterations of its loop so far
    results,        \* run_cli: the results handle_query wrote, in order
    other_alive,    \* a second Tree object of each kind has been constructed
    other_root,     \* second augmented tree: its root_ (nodes in heap)
    other_model,    \* reference set of the second trees
    sentinel_other_root, \* second sentinel tree: its root_ (nodes in sentinel_heap)
    iterating,  \* an iterator of the augmented tree exists
    current_,   \* iterator::current_ (NULL while there is no iterator)
    fixing,     \* the fix-up an insert or erase in progress is in, or "none"
    fix_node,   \* that fix-up's node
    fix_parent, \* erase_fixup's parent
    rb_checksum,    \* benchmark: checksum of run_rb_tree so far
    set_checksum,   \* benchmark: checksum of run_std_set so far
    operations,     \* benchmark: operations of the workload run so far
    reference       \* the std::set program: its tree, streams and status

cli_vars ==
    <<input, output, error, first_output, returned, exit_code, commands, results>>

other_vars == <<other_alive, other_root, other_model, sentinel_other_root>>

iter_vars == <<iterating, current_>>

fix_vars == <<fixing, fix_node, fix_parent>>

bench_vars == <<rb_checksum, set_checksum, operations>>

vars ==
    <<root_, heap, model, op, ret, cases, sentinel_root, sentinel_heap, cli_vars,
      other_vars, iter_vars, fix_vars, bench_vars, reference>>

\* The augmented tree as one value.  tr collects the labels of the
\* rebalancing branches taken (observation only, never read by the
\* operations).
Tree == [root |-> root_, h |-> heap, tr |-> {}]

\* ------------------------------------------------------- NodeBase accessors
color(t, n)        == t.h[n].color
left_child(t, n)   == t.h[n].left
right_child(t, n)  == t.h[n].right
parent(t, n)       == t.h[n].parent
subtree_size(t, n) == t.h[n].subtree_size
value(t, n)        == t.h[n].value

set_color(t, n, c)        == [t EXCEPT !.h[n].color = c]
set_left_child(t, n, l)   == [t EXCEPT !.h[n].left = l]
set_right_child(t, n, r)  == [t EXCEPT !.h[n].right = r]
set_parent(t, n, p)       == [t EXCEPT !.h[n].parent = p]
set_subtree_size(t, n, s) == [t EXCEPT !.h[n].subtree_size = s]
set_root(t, n)            == [t EXCEPT !.root = n]

Mark(t, label) == [t EXCEPT !.tr = @ \cup {label}]

\* one more rotation in this call, counted in the labels up to three
Rotated(t) ==
    Mark(t, IF "rotate_1" \notin t.tr THEN "rotate_1"
            ELSE IF "rotate_2" \notin t.tr THEN "rotate_2"
            ELSE "rotate_3")

\* ------------------------------------------------------------ small helpers
is_nil(n) == n = NULL

color_of(t, n) == IF is_nil(n) THEN BLACK ELSE color(t, n)
is_black(t, n) == color_of(t, n) = BLACK
is_red(t, n)   == color_of(t, n) = RED

node_size(t, n) == IF is_nil(n) THEN 0 ELSE subtree_size(t, n)

recalc_size(t, n) ==
    IF is_nil(n) THEN t
    ELSE set_subtree_size(t, n,
            node_size(t, left_child(t, n)) + node_size(t, right_child(t, n)) + 1)

RECURSIVE update_size_upwards(_, _)

\* mutant: the walk stops at the last node that has a parent; the root is
\* never recomputed
RECURSIVE update_size_upwards_SkipsRoot(_, _)
update_size_upwards_SkipsRoot(t, n) ==
    IF is_nil(n) \/ is_nil(parent(t, n)) THEN t
    ELSE update_size_upwards_SkipsRoot(recalc_size(t, n), parent(t, n))

update_size_upwards(t, n) ==
    IF is_nil(n) THEN t
    ELSE update_size_upwards(recalc_size(t, n), parent(t, n))

\* if (v != nullptr) v->set_parent(p);
reparent(t, v, p) == IF v # NULL THEN set_parent(t, v, p) ELSE t

\* operator new: some address that is not allocated.  The node for v gets
\* address v when that is free, else v + MaxDeep, else v + 2 * MaxDeep (a
\* value has at most three nodes at a time: one in each of two trees and one
\* in a copy being made), and any free address otherwise.
NewAddr(t, v) ==
    IF v \notin DOMAIN t.h THEN v
    ELSE IF v + MaxDeep \notin DOMAIN t.h THEN v + MaxDeep
    ELSE IF v + 2 * MaxDeep \notin DOMAIN t.h THEN v + 2 * MaxDeep
    ELSE CHOOSE a \in Addr : a \notin DOMAIN t.h

\* the heap with address a allocated and holding nd
allocate(t, a, nd) ==
    [t EXCEPT !.h = [x \in DOMAIN t.h \cup {a} |-> IF x = a THEN nd ELSE t.h[x]]]

\* returns the tree with the node allocated, and the node's address
make_node(t, v, c, l, r, p) ==
    LET a == NewAddr(t, v)
    IN  [t    |-> recalc_size(allocate(t, a, [value |-> v, color |-> c, left |-> l,
                                              right |-> r, parent |-> p,
                                              subtree_size |-> 1]), a),
         node |-> a]

\* delete z.  Deleting what is not allocated (a node deleted before) is
\* undefined; the model keeps a record of it at that address, which no tree
\* reaches.
delete_node(t, z) ==
    IF z \in DOMAIN t.h THEN [t EXCEPT !.h = [x \in DOMAIN t.h \ {z} |-> t.h[x]]]
    ELSE allocate(t, z, [deleted_twice |-> TRUE])

\* mutant: the right child is never pushed
RECURSIVE clear_loop_SkipsRight(_, _)
clear_loop_SkipsRight(t, stack) ==
    IF stack = << >> THEN t
    ELSE LET current == stack[Len(stack)]
             left    == left_child(t, current)
         IN  clear_loop_SkipsRight(delete_node(t, current),
                 SubSeq(stack, 1, Len(stack) - 1)
                     \o (IF left # NULL THEN <<left>> ELSE << >>))

\* --------------------------------------------------------- clear and clone
\* the while loop of clear: stack is the std::vector
RECURSIVE clear_loop(_, _)
clear_loop(t, stack) ==
    IF stack = << >> THEN t
    ELSE LET current == stack[Len(stack)]
             left    == left_child(t, current)
             right   == right_child(t, current)
         IN  clear_loop(delete_node(t, current),
                 SubSeq(stack, 1, Len(stack) - 1)
                     \o (IF left # NULL THEN <<left>> ELSE << >>)
                     \o (IF right # NULL THEN <<right>> ELSE << >>))

clear(t, node) == IF node = NULL THEN t ELSE clear_loop(t, <<node>>)

RECURSIVE clone_subtree(_, _, _)

\* lines 962-966 (dir = LEFT), 968-972 (dir = RIGHT): c is what the
\* recursive call returned
clone_attach(c, new_node, dir) ==
    reparent(IF dir = LEFT THEN set_left_child(c.t, new_node, c.node)
             ELSE set_right_child(c.t, new_node, c.node),
             c.node, new_node)

\* mutant: the right subtree is not cloned, the clone keeps the source's
clone_children_SharesRight(mk, node) ==
    [t    |-> recalc_size(
                  clone_attach(
                      [t    |-> clone_attach(
                                    clone_subtree(mk.t, left_child(mk.t, node), mk.node),
                                    mk.node, LEFT),
                       node |-> right_child(mk.t, node)],
                      mk.node, RIGHT),
                  mk.node),
     node |-> mk.node]

\* mutant: the clone keeps the size make_node gave it
clone_children_NoRecalc(mk, node) ==
    [t    |-> clone_attach(
                  clone_subtree(
                      clone_attach(
                          clone_subtree(mk.t, left_child(mk.t, node), mk.node),
                          mk.node, LEFT),
                      right_child(mk.t, node), mk.node),
                  mk.node, RIGHT),
     node |-> mk.node]

\* lines 962-975: mk is what make_node returned.  node is not assigned by
\* the cloning, so its children are read from mk.t
clone_children(mk, node) ==
    [t    |-> recalc_size(
                  clone_attach(
                      clone_subtree(
                          clone_attach(
                              clone_subtree(mk.t, left_child(mk.t, node), mk.node),
                              mk.node, LEFT),
                          right_child(mk.t, node), mk.node),
                      mk.node, RIGHT),
                  mk.node),
     node |-> mk.node]

\* returns the tree with the clone allocated, and the clone's address
clone_subtree(t, node, par) ==
    IF node = NULL THEN [t |-> t, node |-> NULL]
    ELSE clone_children(
             make_node(t, value(t, node), color(t, node), NULL, NULL, par), node)

\* ------------------------------------------------------------------ locate
RECURSIVE locate_loop(_, _, _, _, _)

\* mutant: the first comparison is <= so an equal value descends left and is
\* never reported as existing
RECURSIVE locate_loop_LeDescends(_, _, _, _, _)
locate_loop_LeDescends(t, current, par, go_left, v) ==
    IF current = NULL THEN [parent |-> par, exists |-> FALSE, go_left |-> go_left]
    ELSE IF v <= value(t, current)
         THEN locate_loop_LeDescends(t, left_child(t, current), current, TRUE, v)
    ELSE locate_loop_LeDescends(t, right_child(t, current), current, FALSE, v)

\* mutant: go_left is not reset when the search descends right
RECURSIVE locate_loop_StaleGoLeft(_, _, _, _, _)
locate_loop_StaleGoLeft(t, current, par, go_left, v) ==
    IF current = NULL THEN [parent |-> par, exists |-> FALSE, go_left |-> go_left]
    ELSE IF v < value(t, current)
         THEN locate_loop_StaleGoLeft(t, left_child(t, current), current, TRUE, v)
    ELSE IF value(t, current) < v
         THEN locate_loop_StaleGoLeft(t, right_child(t, current), current, go_left, v)
    ELSE [parent |-> current, exists |-> TRUE, go_left |-> FALSE]

locate_loop(t, current, par, go_left, v) ==
    IF current = NULL THEN [parent |-> par, exists |-> FALSE, go_left |-> go_left]
    ELSE IF v < value(t, current)
         THEN locate_loop(t, left_child(t, current), current, TRUE, v)
    ELSE IF value(t, current) < v
         THEN locate_loop(t, right_child(t, current), current, FALSE, v)
    ELSE [parent |-> current, exists |-> TRUE, go_left |-> FALSE]

locate(t, v) == locate_loop(t, t.root, NULL, FALSE, v)

\* ------------------------------------------------------------------ rotate
\* lines 509-519: the pivot takes the rotated node's place under pivot_parent
rotate_attach(t, node, pivot, pivot_parent) ==
    IF pivot_parent = NULL
    THEN set_parent(set_root(t, pivot), pivot, NULL)
    ELSE IF node = left_child(t, pivot_parent)
         THEN set_left_child(set_parent(t, pivot, pivot_parent), pivot_parent, pivot)
         ELSE set_right_child(set_parent(t, pivot, pivot_parent), pivot_parent, pivot)

\* mutant: the pivot's inward child is not handed to the rotated node
rotate_relink_KeepsGrandchild(t, node, pivot, dir) ==
    IF dir = LEFT
    THEN set_left_child(set_right_child(t, node, NULL), pivot, node)
    ELSE set_right_child(set_left_child(t, node, NULL), pivot, node)

\* lines 521-533: the pivot's inward child moves under the rotated node,
\* which becomes the pivot's child
rotate_relink(t, node, pivot, dir) ==
    IF dir = LEFT
    THEN set_left_child(reparent(set_right_child(t, node, left_child(t, pivot)),
                                 left_child(t, pivot), node),
                        pivot, node)
    ELSE set_right_child(reparent(set_left_child(t, node, right_child(t, pivot)),
                                  right_child(t, pivot), node),
                         pivot, node)

\* mutant: the pivot's size is recomputed before the rotated node's
rotate_PivotSizeFirst(t, node, dir) ==
    LET pivot == IF dir = LEFT THEN right_child(t, node) ELSE left_child(t, node)
        pivot_parent == parent(t, node)
    IN  update_size_upwards(
            recalc_size(
                recalc_size(
                    set_parent(
                        rotate_relink(rotate_attach(t, node, pivot, pivot_parent),
                                      node, pivot, dir),
                        node, pivot),
                    pivot),
                node),
            pivot_parent)

\* lines 535-538 close the rotation: node->set_parent(pivot);
\* recalc_size(node); recalc_size(pivot); update_size_upwards(pivot_parent)
rotate(t, node, dir) ==
    LET pivot == IF dir = LEFT THEN right_child(t, node) ELSE left_child(t, node)
        pivot_parent == parent(t, node)
    IN  update_size_upwards(
            recalc_size(
                recalc_size(
                    set_parent(
                        rotate_relink(rotate_attach(Rotated(t), node, pivot,
                                                    pivot_parent),
                                      node, pivot, dir),
                        node, pivot),
                    node),
                pivot),
            pivot_parent)

grandparent(t, node) ==
    IF parent(t, node) = NULL THEN NULL ELSE parent(t, parent(t, node))

uncle(t, node) ==
    LET grand == grandparent(t, node)
    IN  IF grand = NULL THEN NULL
        ELSE IF parent(t, node) = left_child(t, grand) THEN right_child(t, grand)
        ELSE left_child(t, grand)

\* ------------------------------------------------------------ insert fix-up
\* rotate_left(n) is rotate(n, LEFT), rotate_right(n) is rotate(n, RIGHT).
\* lines 635-640: the rotation that ends finalize_insert_rebalance
finalize_insert_rotate(t, node, par, grand) ==
    IF node = left_child(t, par) /\ par = left_child(t, grand)
    THEN rotate(Mark(t, "ins_outer_right"), grand, RIGHT)
    ELSE IF node = right_child(t, par) /\ par = right_child(t, grand)
    THEN rotate(Mark(t, "ins_outer_left"), grand, LEFT)
    ELSE t

finalize_insert_rebalance(t, node) ==
    LET par   == parent(t, node)
        grand == grandparent(t, node)
    IN  IF par = NULL \/ grand = NULL THEN t
        ELSE finalize_insert_rotate(set_color(set_color(t, par, BLACK), grand, RED),
                                    node, par, grand)

\* node = node->left_child() (dir = LEFT) or node->right_child(), read after
\* the rotation, then finalize_insert_rebalance(node)
finalize_from_child(t, node, dir) ==
    finalize_insert_rebalance(t, IF dir = LEFT THEN left_child(t, node)
                                 ELSE right_child(t, node))

\* mutant: after the inner rotation nothing more is done
fix_insert_inner_child_StopsInside(t, node) ==
    LET par   == parent(t, node)
        grand == grandparent(t, node)
    IN  IF grand = NULL \/ par = NULL THEN t
        ELSE IF node = right_child(t, par) /\ par = left_child(t, grand)
             THEN rotate(Mark(t, "ins_inner_left"), par, LEFT)
        ELSE IF node = left_child(t, par) /\ par = right_child(t, grand)
             THEN rotate(Mark(t, "ins_inner_right"), par, RIGHT)
        ELSE finalize_insert_rebalance(t, node)

fix_insert_inner_child(t, node) ==
    LET par   == parent(t, node)
        grand == grandparent(t, node)
    IN  IF grand = NULL \/ par = NULL THEN t
        ELSE IF node = right_child(t, par) /\ par = left_child(t, grand)
             THEN finalize_from_child(rotate(Mark(t, "ins_inner_left"), par, LEFT),
                                      node, LEFT)
        ELSE IF node = left_child(t, par) /\ par = right_child(t, grand)
             THEN finalize_from_child(rotate(Mark(t, "ins_inner_right"), par, RIGHT),
                                      node, RIGHT)
        ELSE finalize_insert_rebalance(t, node)

RECURSIVE fix_insert_root(_, _)
RECURSIVE fix_insert_black_parent(_, _)
RECURSIVE fix_insert_red_uncle(_, _)

fix_insert_root(t, node) ==
    IF parent(t, node) = NULL
    THEN set_root(set_color(t, node, BLACK), node)
    ELSE fix_insert_black_parent(t, node)

fix_insert_black_parent(t, node) ==
    IF parent(t, node) = NULL \/ color(t, parent(t, node)) = BLACK THEN t
    ELSE fix_insert_red_uncle(t, node)

\* g = grandparent(node) is read after the two set_color calls, which move
\* no link
fix_insert_red_uncle(t, node) ==
    LET u == uncle(t, node)
        g == grandparent(t, node)
    IN  IF u # NULL /\ color(t, u) = RED
        THEN IF g # NULL
             THEN fix_insert_root(
                      set_color(
                          set_color(set_color(Mark(t, "ins_red_uncle"),
                                              parent(t, node), BLACK),
                                    u, BLACK),
                          g, RED),
                      g)
             ELSE set_color(set_color(t, parent(t, node), BLACK), u, BLACK)
        ELSE fix_insert_inner_child(t, node)

\* ------------------------------------------------------------------ insert
\* lines 263-273; mk is what make_node returned
insert_new(mk, par, go_left) ==
    [t   |-> update_size_upwards(
                 fix_insert_root(
                     IF par = NULL THEN set_root(mk.t, mk.node)
                     ELSE IF go_left THEN set_left_child(mk.t, par, mk.node)
                     ELSE set_right_child(mk.t, par, mk.node),
                     mk.node),
                 mk.node),
     ret |-> TRUE]

\* bool Tree::insert(const T& value): returns [t, ret]
insert(t, v) ==
    LET result == locate(t, v)
    IN  IF result.exists THEN [t |-> t, ret |-> FALSE]
        ELSE insert_new(make_node(t, v, RED, NULL, NULL, result.parent),
                        result.parent, result.go_left)

RECURSIVE minimum(_, _)
minimum(t, node) ==
    IF node # NULL /\ left_child(t, node) # NULL
    THEN minimum(t, left_child(t, node))
    ELSE node

\* ------------------------------------------------------------------ detach
transplant(t, u, v) ==
    LET par == parent(t, u)
    IN  update_size_upwards(
            reparent(IF par = NULL THEN set_root(t, v)
                     ELSE IF u = left_child(t, par) THEN set_left_child(t, par, v)
                     ELSE set_right_child(t, par, v),
                     v, par),
            par)

\* DetachResult plus the tree: [t, fixup, parent, removed_color]; t is the
\* tree after transplant(z, replacement), par is z->parent()
detach_single_result(t, z, replacement, par) ==
    [t |-> Mark(t, "det_single"),
     fixup |-> replacement,
     parent |-> IF replacement # NULL THEN parent(t, replacement) ELSE par,
     removed_color |-> color(t, z)]

detach_node_with_single_child(t, z, child) ==
    detach_single_result(transplant(t, z, child), z, child, parent(t, z))

\* lines 744-756: the successor leaves its place (unless it is z's child);
\* the transplant assigns none of z's right_
detach_successor_unlink(t, z, successor, x) ==
    IF parent(t, successor) # z
    THEN reparent(
             set_right_child(transplant(t, successor, right_child(t, successor)),
                             successor, right_child(t, z)),
             right_child(t, z), successor)
    ELSE reparent(t, x, successor)

\* mutant: z's left child is handed over but not told its new parent
detach_successor_replace_LeftKeepsParent(t, z, successor) ==
    update_size_upwards(
        recalc_size(
            set_color(set_left_child(transplant(t, z, successor),
                                     successor, left_child(t, z)),
                      successor, color(t, z)),
            successor),
        successor)

\* lines 758-765: the successor takes z's place, left subtree and colour
\* (transplant assigns none of z's left_, color_)
detach_successor_replace(t, z, successor) ==
    update_size_upwards(
        recalc_size(
            set_color(
                reparent(set_left_child(transplant(t, z, successor),
                                        successor, left_child(t, z)),
                         left_child(t, z), successor),
                successor, color(t, z)),
            successor),
        successor)

\* lines 767-773; x_parent is what lines 745, 752 left in it
detach_successor_result(t, x, x_parent, successor_parent_is_z, removed_color) ==
    [t |-> Mark(t, IF successor_parent_is_z THEN "det_succ_child" ELSE "det_succ_deep"),
     fixup |-> x,
     parent |-> IF x # NULL THEN parent(t, x) ELSE x_parent,
     removed_color |-> removed_color]

detach_node_with_successor(t, z) ==
    LET successor == minimum(t, right_child(t, z))
        x == right_child(t, successor)
        successor_parent_is_z == (parent(t, successor) = z)
    IN  detach_successor_result(
            detach_successor_replace(detach_successor_unlink(t, z, successor, x),
                                     z, successor),
            x,
            IF successor_parent_is_z THEN successor ELSE parent(t, successor),
            successor_parent_is_z,
            color(t, successor))

\* mutant: a node with two children is spliced out like a node with one,
\* its left child taking its place
detach_node_NoSuccessorCase(t, z) ==
    IF is_nil(left_child(t, z))
    THEN detach_node_with_single_child(t, z, right_child(t, z))
    ELSE detach_node_with_single_child(t, z, left_child(t, z))

detach_node(t, z) ==
    IF is_nil(left_child(t, z))
    THEN detach_node_with_single_child(t, z, right_child(t, z))
    ELSE IF is_nil(right_child(t, z))
    THEN detach_node_with_single_child(t, z, left_child(t, z))
    ELSE detach_node_with_successor(t, z)

\* ------------------------------------------------------------- erase fix-up
paint(t, node, c) == IF ~is_nil(node) THEN set_color(t, node, c) ELSE t

\* (dir == LEFT) ? parent->right_child() : parent->left_child()
sibling_on(t, par, dir) ==
    IF dir = LEFT THEN right_child(t, par) ELSE left_child(t, par)

\* a tree and the sibling read from it (lines 822-823)
with_sibling(t, par, dir) == [t |-> t, sibling |-> sibling_on(t, par, dir)]

\* parent and sibling are reference parameters: returns [t, sibling]
\* (parent is never assigned)
ensure_black_sibling(t, par, sibling, dir) ==
    IF is_red(t, sibling)
    THEN with_sibling(
             rotate(Mark(paint(paint(t, sibling, BLACK), par, RED), "er_red_sibling"),
                    par, dir),
             par, dir)
    ELSE [t |-> t, sibling |-> sibling]

\* returns [inner, outer]
fetch_sibling_children(t, sibling, dir) ==
    IF sibling = NULL THEN [inner |-> NULL, outer |-> NULL]
    ELSE IF dir = LEFT
         THEN [inner |-> left_child(t, sibling), outer |-> right_child(t, sibling)]
         ELSE [inner |-> right_child(t, sibling), outer |-> left_child(t, sibling)]

\* node = root_; parent = nullptr;
at_root(t) == [t |-> t, node |-> t.root, parent |-> NULL]

\* mutant: the sibling's outer child is left RED
apply_outer_rotation_OuterNotPainted(t, node, par, sibling, sibling_outer, dir) ==
    at_root(
        rotate(Mark(paint(paint(t, sibling,
                                IF par # NULL THEN color(t, par) ELSE BLACK),
                          par, BLACK),
                    "er_outer"),
               par, dir))

\* node and parent are reference parameters: returns [t, node, parent]
apply_outer_rotation(t, node, par, sibling, sibling_outer, dir) ==
    at_root(
        rotate(Mark(paint(paint(paint(t, sibling,
                                      IF par # NULL THEN color(t, par) ELSE BLACK),
                                par, BLACK),
                          sibling_outer, BLACK),
                    "er_outer"),
               par, dir))

\* lines 890-896: the sibling and its children are re-read after the inner
\* rotation, then the outer rotation runs
erase_fixup_after_inner(t, node, par, dir) ==
    LET sibling == sibling_on(t, par, dir)
    IN  apply_outer_rotation(t, node, par, sibling,
                             fetch_sibling_children(t, sibling, dir).outer, dir)

\* mutant: with two BLACK children under the sibling the node stays where
\* it is
erase_fixup_cases_NodeStays(e, node, par, dir) ==
    LET c == fetch_sibling_children(e.t, e.sibling, dir)
    IN  IF is_black(e.t, c.inner) /\ is_black(e.t, c.outer)
        THEN [t      |-> paint(Mark(e.t, "er_black_children"), e.sibling, RED),
              node   |-> node,
              parent |-> par]
        ELSE IF is_black(e.t, c.outer)
        THEN erase_fixup_after_inner(
                 rotate(Mark(paint(paint(e.t, c.inner, BLACK), e.sibling, RED),
                             "er_inner"),
                        e.sibling, IF dir = LEFT THEN RIGHT ELSE LEFT),
                 node, par, dir)
        ELSE apply_outer_rotation(e.t, node, par, e.sibling, c.outer, dir)

\* lines 873-896, e being what ensure_black_sibling returned
erase_fixup_cases(e, node, par, dir) ==
    LET c == fetch_sibling_children(e.t, e.sibling, dir)
    IN  IF is_black(e.t, c.inner) /\ is_black(e.t, c.outer)
        THEN [t      |-> paint(Mark(e.t, "er_black_children"), e.sibling, RED),
              node   |-> par,
              parent |-> parent(e.t, par)]
        ELSE IF is_black(e.t, c.outer)
        THEN erase_fixup_after_inner(
                 rotate(Mark(paint(paint(e.t, c.inner, BLACK), e.sibling, RED),
                             "er_inner"),
                        e.sibling, IF dir = LEFT THEN RIGHT ELSE LEFT),
                 node, par, dir)
        ELSE apply_outer_rotation(e.t, node, par, e.sibling, c.outer, dir)

\* node and parent are reference parameters: returns [t, node, parent]
erase_fixup_direction(t, node, par, dir) ==
    IF par = NULL
    THEN [t |-> Mark(t, "er_no_parent"), node |-> t.root, parent |-> par]
    ELSE erase_fixup_cases(
             ensure_black_sibling(t, par, sibling_on(t, par, dir), dir),
             node, par, dir)

RECURSIVE erase_fixup(_, _, _)
RECURSIVE erase_fixup_again(_, _)

\* the loop goes round with what erase_fixup_direction left in node, parent
erase_fixup_again(r, label) == erase_fixup(Mark(r.t, label), r.node, r.parent)

erase_fixup(t, node, par) ==
    IF node # t.root /\ is_black(t, node)
    THEN erase_fixup_again(
             IF par # NULL /\ node = left_child(t, par)
             THEN erase_fixup_direction(t, node, par, LEFT)
             ELSE erase_fixup_direction(t, node, par, RIGHT),
             IF "er_loop" \in t.tr THEN "er_loop_again" ELSE "er_loop")
    ELSE paint(t, node, BLACK)

\* ------------------------------------------------------------------- erase
\* mutant: the fix-up runs whatever the colour of the removed node
erase_detached_AlwaysFixup(detach, z) ==
    [t   |-> erase_fixup(Mark(delete_node(detach.t, z), "er_fixup"),
                         detach.fixup, detach.parent),
     ret |-> TRUE]

\* lines 285-290: delete z; then the fix-up if a BLACK node was removed
erase_detached(detach, z) ==
    [t   |-> IF detach.removed_color = BLACK
             THEN erase_fixup(Mark(delete_node(detach.t, z), "er_fixup"),
                              detach.fixup, detach.parent)
             ELSE delete_node(detach.t, z),
     ret |-> TRUE]

\* mutant: result.exists is not tested; the node the search ended at is
\* erased
erase_NoExistsCheck(t, v) ==
    LET result == locate(t, v)
    IN  IF result.parent = NULL THEN [t |-> t, ret |-> FALSE]
        ELSE erase_detached(detach_node(t, result.parent), result.parent)

\* bool Tree::erase(const T& value): returns [t, ret]
erase(t, v) ==
    LET result == locate(t, v)
    IN  IF ~result.exists THEN [t |-> t, ret |-> FALSE]
        ELSE erase_detached(detach_node(t, result.parent), result.parent)

\* ---------------------------------------------------------------- is_valid
\* validate_subtree returns [ok, bh]: the bool and *black_height_out
RECURSIVE validate_subtree(_, _)

\* lines 929-946, lv and rv being what the two recursive calls returned
validate_heights(t, node, lv, rv) ==
    IF ~lv.ok THEN [ok |-> FALSE, bh |-> 0]
    ELSE IF ~rv.ok THEN [ok |-> FALSE, bh |-> 0]
    ELSE IF lv.bh # rv.bh THEN [ok |-> FALSE, bh |-> 0]
    ELSE [ok |-> TRUE,
          bh |-> lv.bh + (IF color(t, node) = BLACK THEN 1 ELSE 0)]

validate_subtree(t, node) ==
    IF node = NULL THEN [ok |-> TRUE, bh |-> 1]
    ELSE LET l == left_child(t, node)
             r == right_child(t, node)
         IN  IF color(t, node) = RED
                /\ (   (l # NULL /\ color(t, l) = RED)
                    \/ (r # NULL /\ color(t, r) = RED))
             THEN [ok |-> FALSE, bh |-> 0]
             ELSE validate_heights(t, node, validate_subtree(t, l),
                                   validate_subtree(t, r))

\* mutant: the root's colour is not looked at
is_valid_AnyRoot(t) ==
    IF t.root = NULL THEN TRUE
    ELSE validate_subtree(t, t.root).ok

is_valid(t) ==
    IF t.root = NULL THEN TRUE
    ELSE IF color(t, t.root) # BLACK THEN FALSE
    ELSE validate_subtree(t, t.root).ok

\* ------------------------------------------------------------ rank queries
\* mutant: < written as <=
compare_lower_bound_Le(first, second) == first <= second

compare_lower_bound(first, second) == first < second

\* mutant: <= written as <
compare_upper_bound_Strict(first, second) == first < second

compare_upper_bound(first, second) == first <= second

\* cmp_t: a std::function holding one of the two comparators, named here
\* by the comparator's name
CmpLower == "compare_lower_bound"
CmpUpper == "compare_upper_bound"
call_cmp(cmp, a, b) ==
    IF cmp = CmpLower THEN compare_lower_bound(a, b) ELSE compare_upper_bound(a, b)

RECURSIVE rank_comp_bound_loop(_, _, _, _, _)

\* mutant: the node itself is not counted when the search goes right
RECURSIVE rank_comp_bound_loop_NoPlusOne(_, _, _, _, _)
rank_comp_bound_loop_NoPlusOne(t, current, result, v, cmp) ==
    IF is_nil(current) THEN result
    ELSE IF call_cmp(cmp, value(t, current), v)
         THEN rank_comp_bound_loop_NoPlusOne(t, right_child(t, current),
                  result + node_size(t, left_child(t, current)), v, cmp)
         ELSE rank_comp_bound_loop_NoPlusOne(t, left_child(t, current), result, v, cmp)

rank_comp_bound_loop(t, current, result, v, cmp) ==
    IF is_nil(current) THEN result
    ELSE IF call_cmp(cmp, value(t, current), v)
         THEN rank_comp_bound_loop(t, right_child(t, current),
                  result + node_size(t, left_child(t, current)) + 1, v, cmp)
         ELSE rank_comp_bound_loop(t, left_child(t, current), result, v, cmp)

rank_comp_bound(t, v, cmp) == rank_comp_bound_loop(t, t.root, 0, v, cmp)

\* mutant: the bounds' order is not looked at
distance_NoOrderCheck(t, first, second) ==
    LET first_rank  == rank_comp_bound(t, first, CmpLower)
        second_rank == rank_comp_bound(t, second, CmpUpper)
    IN  IF first_rank <= second_rank THEN second_rank - first_rank
        ELSE ASSERT_FAILED

\* mutant: both ranks taken with compare_upper_bound
distance_UpperUpper(t, first, second) ==
    LET first_rank  == rank_comp_bound(t, first, CmpUpper)
        second_rank == rank_comp_bound(t, second, CmpUpper)
    IN  IF first > second THEN 0
        ELSE IF first_rank <= second_rank THEN second_rank - first_rank
        ELSE ASSERT_FAILED

\* assert(first_rank <= second_rank) failing is ASSERT_FAILED
distance(t, first, second) ==
    LET first_rank  == rank_comp_bound(t, first, CmpLower)
        second_rank == rank_comp_bound(t, second, CmpUpper)
    IN  IF first > second THEN 0
        ELSE IF first_rank <= second_rank THEN second_rank - first_rank
        ELSE ASSERT_FAILED

size(t) == node_size(t, t.root)

\* mutant: a root without children counts as no root
empty_LeafRoot(t) ==
    \/ t.root = NULL
    \/ left_child(t, t.root) = NULL /\ right_child(t, t.root) = NULL

empty(t) == t.root = NULL

\* std::numeric_limits<size_t>::max(), what the distance functions return
\* for a value that is not stored.  The model's integers are 32 bits wide,
\* so it is the largest of those; no arithmetic is done on it.
SIZE_MAX == 2147483647

\* mutant: the rank is taken with compare_upper_bound
distance_from_root_UpperRank(t, v) ==
    LET location == locate(t, v)
    IN  IF ~location.exists THEN SIZE_MAX
        ELSE rank_comp_bound(t, v, CmpUpper)

distance_from_root(t, v) ==
    LET location == locate(t, v)
    IN  IF ~location.exists THEN SIZE_MAX
        ELSE rank_comp_bound(t, v, CmpLower)

\* ---------------------------------------------------------------- iteration
\* mutant: the parent at once, whichever side the node hangs on
next_up_NoClimb(t, node, par) == par

RECURSIVE next_up(_, _, _)
next_up(t, node, par) ==
    IF par # NULL /\ node = right_child(t, par)
    THEN next_up(t, par, parent(t, par))
    ELSE par

next(t, node) ==
    IF node = NULL THEN NULL
    ELSE IF right_child(t, node) # NULL THEN minimum(t, right_child(t, node))
    ELSE next_up(t, node, parent(t, node))

\* iterator positions are node addresses, end() is NULL
begin(t) == IF t.root # NULL THEN minimum(t, t.root) ELSE NULL
end(t)   == NULL

\* mutant: the node itself, its right children not followed
maximum_StaysPut(t, node) == node

RECURSIVE maximum(_, _)
maximum(t, node) ==
    IF node # NULL /\ right_child(t, node) # NULL
    THEN maximum(t, right_child(t, node))
    ELSE node

RECURSIVE prev_up(_, _, _)
prev_up(t, node, par) ==
    IF par # NULL /\ node = left_child(t, par)
    THEN prev_up(t, par, parent(t, par))
    ELSE par

prev(t, node) ==
    IF node = NULL THEN NULL
    ELSE IF left_child(t, node) # NULL THEN maximum(t, left_child(t, node))
    ELSE prev_up(t, node, parent(t, node))

\* the loop of bound_node; cmp stands for the lambda go_left
RECURSIVE bound_node_loop(_, _, _, _, _)
bound_node_loop(t, v, cmp, current, result) ==
    IF current = NULL THEN result
    ELSE IF (IF cmp = CmpLower THEN value(t, current) >= v
                               ELSE value(t, current) > v)
         THEN bound_node_loop(t, v, cmp, left_child(t, current), current)
         ELSE bound_node_loop(t, v, cmp, right_child(t, current), result)

bound_node(t, v, cmp) == bound_node_loop(t, v, cmp, t.root, NULL)

lower_bound_node(t, v) == bound_node(t, v, CmpLower)
upper_bound_node(t, v) == bound_node(t, v, CmpUpper)

\* the iterators lower_bound and upper_bound return
lower_bound(t, v) == lower_bound_node(t, v)
upper_bound(t, v) == upper_bound_node(t, v)

\* iterator::operator*: the value, or the failed assertion
operator_star(t, current) ==
    IF current = NULL THEN ASSERT_FAILED ELSE value(t, current)

\* iterator::operator++: [failed, current_]; the assertion comes first
operator_increment(t, current) ==
    IF current = NULL THEN [failed |-> TRUE, current_ |-> current]
    ELSE [failed |-> FALSE, current_ |-> next(t, current)]

\* mutant: the assertion of operator++ put in front
operator_decrement_AssertsFirst(t, current) ==
    IF current = NULL THEN [failed |-> TRUE, current_ |-> current]
    ELSE [failed |-> prev(t, current) = NULL, current_ |-> prev(t, current)]

\* iterator::operator--: [failed, current_]; the assertion comes last
operator_decrement(t, current) ==
    LET moved == IF current = NULL THEN maximum(t, t.root) ELSE prev(t, current)
    IN  [failed |-> moved = NULL, current_ |-> moved]

\* ===================================================== the sentinel tree
\* rb::Tree<T> in its sentinel variant: absent children and the root's
\* parent are the tree's own nil_ node, which is a node of the heap with
\* fields of its own; sizes are not stored.  NodeBase has the same accessors
\* as above.  Operations whose names both variants use carry the prefix
\* sentinel_ here; rotate_left / rotate_right and erase_fixup_left /
\* erase_fixup_right, mirror images of each other in the source, are
\* modelled once with the direction as a parameter.
nil_ == 0                        \* the address of Tree::nil_

SentinelTree == [root |-> sentinel_root, h |-> sentinel_heap]

sentinel_is_nil(n) == n = nil_

sentinel_color_of(t, n) == IF sentinel_is_nil(n) THEN BLACK ELSE color(t, n)

\* the child of n on side dir
sentinel_child(t, n, dir) ==
    IF dir = LEFT THEN left_child(t, n) ELSE right_child(t, n)

opposite(dir) == IF dir = LEFT THEN RIGHT ELSE LEFT

\* if (!is_nil(v)) v->set_parent(p);
sentinel_reparent(t, v, p) ==
    IF ~sentinel_is_nil(v) THEN set_parent(t, v, p) ELSE t

\* if (!is_nil(n)) n->set_color(c);
sentinel_paint(t, n, c) == IF ~sentinel_is_nil(n) THEN set_color(t, n, c) ELSE t

RECURSIVE sentinel_locate_loop(_, _, _, _, _)
RECURSIVE sentinel_locate_loop_NeverEqual(_, _, _, _, _)
\* mutant: an equal value is looked for further right
sentinel_locate_loop_NeverEqual(t, current, par, go_left, v) ==
    IF sentinel_is_nil(current)
    THEN [parent |-> par, exists |-> FALSE, go_left |-> go_left]
    ELSE IF v < value(t, current)
         THEN sentinel_locate_loop_NeverEqual(t, left_child(t, current), current, TRUE, v)
    ELSE sentinel_locate_loop_NeverEqual(t, right_child(t, current), current, FALSE, v)

sentinel_locate_loop(t, current, par, go_left, v) ==
    IF sentinel_is_nil(current)
    THEN [parent |-> par, exists |-> FALSE, go_left |-> go_left]
    ELSE IF v < value(t, current)
         THEN sentinel_locate_loop(t, left_child(t, current), current, TRUE, v)
    ELSE IF value(t, current) < v
         THEN sentinel_locate_loop(t, right_child(t, current), current, FALSE, v)
    ELSE [parent |-> current, exists |-> TRUE, go_left |-> FALSE]

sentinel_locate(t, v) == sentinel_locate_loop(t, t.root, nil_, FALSE, v)

\* ------------------------------------------------------- sentinel rotations
\* lines 349-356 (373-380), after pivot->set_parent(node->parent())
sentinel_rotate_attach(t, node, pivot) ==
    IF parent(t, node) = nil_
    THEN set_parent(set_root(t, pivot), pivot, nil_)
    ELSE IF node = left_child(t, parent(t, node))
         THEN set_left_child(t, parent(t, node), pivot)
         ELSE set_right_child(t, parent(t, node), pivot)

\* lines 358-364 (dir = LEFT), 382-388 (dir = RIGHT)
sentinel_rotate_relink(t, node, pivot, dir) ==
    IF dir = LEFT
    THEN set_parent(
             set_left_child(
                 sentinel_reparent(set_right_child(t, node, left_child(t, pivot)),
                                   left_child(t, pivot), node),
                 pivot, node),
             node, pivot)
    ELSE set_parent(
             set_right_child(
                 sentinel_reparent(set_left_child(t, node, right_child(t, pivot)),
                                   right_child(t, pivot), node),
                 pivot, node),
             node, pivot)

\* rotate_left(node) for dir = LEFT, rotate_right(node) for dir = RIGHT
sentinel_rotate(t, node, dir) ==
    LET pivot == sentinel_child(t, node, opposite(dir))
    IN  sentinel_rotate_relink(
            sentinel_rotate_attach(set_parent(t, pivot, parent(t, node)), node, pivot),
            node, pivot, dir)

sentinel_grandparent(t, node) ==
    IF sentinel_is_nil(parent(t, node)) THEN nil_ ELSE parent(t, parent(t, node))

sentinel_uncle(t, node) ==
    LET grand == sentinel_grandparent(t, node)
    IN  IF sentinel_is_nil(grand) THEN nil_
        ELSE IF parent(t, node) = left_child(t, grand) THEN right_child(t, grand)
        ELSE left_child(t, grand)

\* ---------------------------------------------------- sentinel insert cases
\* lines 470-475
insert_case5_rotate(t, node, par, grand) ==
    IF node = left_child(t, par) /\ par = left_child(t, grand)
    THEN sentinel_rotate(t, grand, RIGHT)
    ELSE IF node = right_child(t, par) /\ par = right_child(t, grand)
    THEN sentinel_rotate(t, grand, LEFT)
    ELSE t

insert_case5(t, node) ==
    LET par   == parent(t, node)
        grand == sentinel_grandparent(t, node)
    IN  insert_case5_rotate(set_color(set_color(t, par, BLACK), grand, RED),
                            node, par, grand)

\* node = node->left_child() (dir = LEFT) or node->right_child(), read after
\* the rotation, then insert_case5(node)
insert_case5_from_child(t, node, dir) ==
    insert_case5(t, sentinel_child(t, node, dir))

insert_case4(t, node) ==
    LET par   == parent(t, node)
        grand == sentinel_grandparent(t, node)
    IN  IF node = right_child(t, par) /\ par = left_child(t, grand)
        THEN insert_case5_from_child(sentinel_rotate(t, par, LEFT), node, LEFT)
        ELSE IF node = left_child(t, par) /\ par = right_child(t, grand)
        THEN insert_case5_from_child(sentinel_rotate(t, par, RIGHT), node, RIGHT)
        ELSE insert_case5(t, node)

RECURSIVE insert_case1(_, _)
RECURSIVE insert_case2(_, _)
RECURSIVE insert_case3(_, _)

insert_case1(t, node) ==
    IF parent(t, node) = nil_
    THEN set_root(set_color(t, node, BLACK), node)
    ELSE insert_case2(t, node)

insert_case2(t, node) ==
    IF color(t, parent(t, node)) = BLACK THEN t
    ELSE insert_case3(t, node)

\* g = grandparent(node) is read after the two set_color calls, which move
\* no link
insert_case3(t, node) ==
    LET u == sentinel_uncle(t, node)
        g == sentinel_grandparent(t, node)
    IN  IF ~sentinel_is_nil(u) /\ color(t, u) = RED
        THEN insert_case1(
                 set_color(set_color(set_color(t, parent(t, node), BLACK), u, BLACK),
                           g, RED),
                 g)
        ELSE insert_case4(t, node)

\* ----------------------------------------------------------- sentinel insert
\* mutant: the new node is hung under its parent even when that is nil_
sentinel_insert_new_UnderNil(t, new_node, par, go_left) ==
    [t   |-> insert_case1(
                 IF go_left THEN set_left_child(t, par, new_node)
                 ELSE set_right_child(t, par, new_node),
                 new_node),
     ret |-> TRUE]

\* lines 158-166; t holds the new node at address new_node
sentinel_insert_new(t, new_node, par, go_left) ==
    [t   |-> insert_case1(
                 IF par = nil_ THEN set_root(t, new_node)
                 ELSE IF go_left THEN set_left_child(t, par, new_node)
                 ELSE set_right_child(t, par, new_node),
                 new_node),
     ret |-> TRUE]

\* bool Tree::insert(const T& value): returns [t, ret]
sentinel_insert(t, v) ==
    LET result == sentinel_locate(t, v)
        a == NewAddr(t, v)
    IN  IF result.exists THEN [t |-> t, ret |-> FALSE]
        ELSE sentinel_insert_new(
                 allocate(t, a, [value |-> v, color |-> RED, left |-> nil_,
                                 right |-> nil_, parent |-> result.parent]),
                 a, result.parent, result.go_left)

\* ------------------------------------------------------------ sentinel erase
RECURSIVE sentinel_minimum(_, _)
sentinel_minimum(t, node) ==
    IF ~sentinel_is_nil(left_child(t, node))
    THEN sentinel_minimum(t, left_child(t, node))
    ELSE node

\* v->set_parent(u->parent()) runs for the sentinel as well
sentinel_transplant(t, u, v) ==
    LET par == parent(t, u)
    IN  set_parent(IF par = nil_ THEN set_root(t, v)
                   ELSE IF u = left_child(t, par) THEN set_left_child(t, par, v)
                   ELSE set_right_child(t, par, v),
                   v, par)

\* lines 514-522 (the transplant assigns none of node's right_)
detach_successor_out(t, node, successor, fixup_node) ==
    IF parent(t, successor) = node
    THEN set_parent(t, fixup_node, successor)
    ELSE sentinel_reparent(
             set_right_child(
                 sentinel_transplant(t, successor, right_child(t, successor)),
                 successor, right_child(t, node)),
             right_child(t, node), successor)

\* mutant: the successor keeps its own colour
detach_successor_in_KeepsColour(t, node, successor) ==
    sentinel_reparent(
        set_left_child(sentinel_transplant(t, node, successor),
                       successor, left_child(t, node)),
        left_child(t, node), successor)

\* lines 524-529 (the transplant assigns none of node's left_, color_)
detach_successor_in(t, node, successor) ==
    set_color(
        sentinel_reparent(
            set_left_child(sentinel_transplant(t, node, successor),
                           successor, left_child(t, node)),
            left_child(t, node), successor),
        successor, color(t, node))

\* EraseContext plus the tree: [t, fixup_node, removed_color]
detach_erase_target(t, node) ==
    IF sentinel_is_nil(left_child(t, node))
    THEN [t |-> sentinel_transplant(t, node, right_child(t, node)),
          fixup_node |-> right_child(t, node), removed_color |-> color(t, node)]
    ELSE IF sentinel_is_nil(right_child(t, node))
    THEN [t |-> sentinel_transplant(t, node, left_child(t, node)),
          fixup_node |-> left_child(t, node), removed_color |-> color(t, node)]
    ELSE LET successor == sentinel_minimum(t, right_child(t, node))
         IN  [t |-> detach_successor_in(
                        detach_successor_out(t, node, successor,
                                             right_child(t, successor)),
                        node, successor),
              fixup_node |-> right_child(t, successor),
              removed_color |-> color(t, successor)]

\* ----- erase_fixup_left (dir = LEFT) and erase_fixup_right (dir = RIGHT):
\* node is the child on side dir of its parent, the sibling is the parent's
\* other child, the sibling's child on side dir is its inner one.  Each
\* returns [t, node], node being what the C++ function returns.

\* return root_;
sentinel_at_root(t) == [t |-> t, node |-> t.root]

\* mutant: the sibling is painted BLACK whatever the parent's colour
erase_fixup_outer_SiblingBlack(t, node, sibling, dir) ==
    sentinel_at_root(
        sentinel_rotate(
            sentinel_paint(
                set_color(sentinel_paint(t, sibling, BLACK), parent(t, node), BLACK),
                sentinel_child(t, sibling, opposite(dir)), BLACK),
            parent(t, node), dir))

\* lines 582-590 (626-634)
erase_fixup_outer(t, node, sibling, dir) ==
    sentinel_at_root(
        sentinel_rotate(
            sentinel_paint(
                set_color(sentinel_paint(t, sibling, color(t, parent(t, node))),
                          parent(t, node), BLACK),
                sentinel_child(t, sibling, opposite(dir)), BLACK),
            parent(t, node), dir))

\* sibling = node->parent()->right_child() (left_child()) after the inner
\* rotation, then lines 582-590 (626-634)
erase_fixup_outer_reread(t, node, dir) ==
    erase_fixup_outer(t, node, sentinel_child(t, parent(t, node), opposite(dir)), dir)

\* lines 561-590 (605-634)
erase_fixup_cases_of(t, node, sibling, dir) ==
    IF sentinel_color_of(t, left_child(t, sibling)) = BLACK
       /\ sentinel_color_of(t, right_child(t, sibling)) = BLACK
    THEN [t |-> sentinel_paint(t, sibling, RED), node |-> parent(t, node)]
    ELSE IF sentinel_color_of(t, sentinel_child(t, sibling, opposite(dir))) = BLACK
    THEN erase_fixup_outer_reread(
             sentinel_rotate(
                 sentinel_paint(
                     sentinel_paint(t, sentinel_child(t, sibling, dir), BLACK),
                     sibling, RED),
                 sibling, opposite(dir)),
             node, dir)
    ELSE erase_fixup_outer(t, node, sibling, dir)

\* sibling = node->parent()->right_child() (left_child()) after the red
\* sibling's rotation, then lines 561-590 (605-634)
erase_fixup_cases_reread(t, node, dir) ==
    erase_fixup_cases_of(t, node, sentinel_child(t, parent(t, node), opposite(dir)),
                         dir)

\* erase_fixup_left(node) for dir = LEFT, erase_fixup_right(node) for RIGHT
erase_fixup_side(t, node, dir) ==
    LET sibling == sentinel_child(t, parent(t, node), opposite(dir))
    IN  IF sentinel_color_of(t, sibling) = RED
        THEN erase_fixup_cases_reread(
                 sentinel_rotate(
                     set_color(sentinel_paint(t, sibling, BLACK), parent(t, node), RED),
                     parent(t, node), dir),
                 node, dir)
        ELSE erase_fixup_cases_of(t, node, sibling, dir)

RECURSIVE sentinel_erase_fixup(_, _)
RECURSIVE sentinel_erase_fixup_again(_)

\* node = erase_fixup_left(node) / erase_fixup_right(node); the loop again
sentinel_erase_fixup_again(r) == sentinel_erase_fixup(r.t, r.node)

sentinel_erase_fixup(t, node) ==
    IF node # t.root /\ sentinel_color_of(t, node) = BLACK
    THEN sentinel_erase_fixup_again(
             IF node = left_child(t, parent(t, node))
             THEN erase_fixup_side(t, node, LEFT)
             ELSE erase_fixup_side(t, node, RIGHT))
    ELSE set_color(t, node, BLACK)

\* lines 541-546
finalize_erase_root(t) ==
    IF sentinel_is_nil(t.root) THEN set_root(t, nil_)
    ELSE set_color(set_parent(t, t.root, nil_), t.root, BLACK)

\* delete as_node(target); finalize_erase(ctx);
sentinel_erase_detached(ctx, target) ==
    [t   |-> finalize_erase_root(
                 IF ctx.removed_color = BLACK
                 THEN sentinel_erase_fixup(delete_node(ctx.t, target), ctx.fixup_node)
                 ELSE delete_node(ctx.t, target)),
     ret |-> TRUE]

\* bool Tree::erase(const T& value): returns [t, ret]
sentinel_erase(t, v) ==
    LET result == sentinel_locate(t, v)
    IN  IF ~result.exists THEN [t |-> t, ret |-> FALSE]
        ELSE sentinel_erase_detached(detach_erase_target(t, result.parent),
                                     result.parent)

\* ------------------------------------------------------ sentinel rank queries
RECURSIVE sentinel_subtree_size(_, _)
sentinel_subtree_size(t, node) ==
    IF sentinel_is_nil(node) THEN 0
    ELSE 1 + sentinel_subtree_size(t, left_child(t, node))
           + sentinel_subtree_size(t, right_child(t, node))

sentinel_size(t) == sentinel_subtree_size(t, t.root)

RECURSIVE order_statistics_loop(_, _, _, _)
order_statistics_loop(t, current, count, target) ==
    IF sentinel_is_nil(current) THEN count
    ELSE IF target < value(t, current)
         THEN order_statistics_loop(t, left_child(t, current), count, target)
    ELSE IF value(t, current) < target
         THEN order_statistics_loop(t, right_child(t, current),
                  count + sentinel_subtree_size(t, left_child(t, current)) + 1, target)
    ELSE count + sentinel_subtree_size(t, left_child(t, current))

order_statistics(t, node) == order_statistics_loop(t, t.root, 0, value(t, node))

\* if (candidate == &nil_) return size(); return order_statistics(candidate);
rank_of_candidate(t, candidate) ==
    IF candidate = nil_ THEN sentinel_size(t) ELSE order_statistics(t, candidate)

RECURSIVE rank_lower_bound_loop(_, _, _, _)
rank_lower_bound_loop(t, current, candidate, v) ==
    IF sentinel_is_nil(current) THEN candidate
    ELSE IF value(t, current) < v
         THEN rank_lower_bound_loop(t, right_child(t, current), candidate, v)
         ELSE rank_lower_bound_loop(t, left_child(t, current), current, v)

rank_lower_bound(t, v) ==
    rank_of_candidate(t, rank_lower_bound_loop(t, t.root, nil_, v))

RECURSIVE rank_upper_bound_loop(_, _, _, _)
rank_upper_bound_loop(t, current, candidate, v) ==
    IF sentinel_is_nil(current) THEN candidate
    ELSE IF v < value(t, current)
         THEN rank_upper_bound_loop(t, left_child(t, current), current, v)
         ELSE rank_upper_bound_loop(t, right_child(t, current), candidate, v)

\* mutant: the candidate is the first node not less than v
rank_upper_bound_AsLower(t, v) ==
    rank_of_candidate(t, rank_lower_bound_loop(t, t.root, nil_, v))

rank_upper_bound(t, v) ==
    rank_of_candidate(t, rank_upper_bound_loop(t, t.root, nil_, v))

\* mutant: neither bound is looked up first
sentinel_distance_NoExistsCheck(t, first, second) ==
    LET first_rank  == rank_lower_bound(t, first)
        second_rank == rank_lower_bound(t, second)
    IN  IF first_rank >= second_rank THEN 0
        ELSE second_rank - first_rank

\* Tree::distance of the sentinel tree
sentinel_distance(t, first, second) ==
    LET first_location  == sentinel_locate(t, first)
        second_location == sentinel_locate(t, second)
        first_rank      == rank_lower_bound(t, first)
        second_rank     == rank_lower_bound(t, second)
    IN  IF ~first_location.exists \/ ~second_location.exists THEN SIZE_MAX
        ELSE IF first_rank >= second_rank THEN 0
        ELSE second_rank - first_rank

\* Tree::distance_from_root of the sentinel tree
sentinel_distance_from_root(t, v) ==
    LET location == sentinel_locate(t, v)
    IN  IF ~location.exists THEN SIZE_MAX
        ELSE rank_lower_bound(t, v)

\* ------------------------------------------- a second sentinel tree object
\* Its nil_ member lies at other_nil, an address operator new never hands
\* out.  this_nil below is &nil_ of the tree t stands for.
other_nil == 3 * MaxDeep + 1

SentinelOtherTree == [root |-> sentinel_other_root, h |-> sentinel_heap]

reset_nil_links(t, this_nil) ==
    set_color(set_parent(set_right_child(set_left_child(t, this_nil, this_nil),
                                         this_nil, this_nil),
                         this_nil, this_nil),
              this_nil, BLACK)

\* Tree(): nil_(BLACK, &nil_, &nil_, &nil_), root_(&nil_), reset_nil_links()
sentinel_construct(t, this_nil) ==
    reset_nil_links(
        set_root(allocate(t, this_nil, [color |-> BLACK, left |-> this_nil,
                                        right |-> this_nil, parent |-> this_nil]),
                 this_nil),
        this_nil)

RECURSIVE sentinel_clear(_, _, _)
sentinel_clear(t, node, this_nil) ==
    IF node = this_nil THEN t
    ELSE delete_node(
             sentinel_clear(sentinel_clear(t, left_child(t, node), this_nil),
                            right_child(t, node), this_nil),
             node)

RECURSIVE rebind_nil(_, _, _, _)

\* lines 753-758 (dir = LEFT), 760-765 (dir = RIGHT)
rebind_child(t, node, dir, old_nil, new_nil) ==
    IF sentinel_child(t, node, dir) = old_nil
    THEN IF dir = LEFT THEN set_left_child(t, node, new_nil)
         ELSE set_right_child(t, node, new_nil)
    ELSE rebind_nil(t, sentinel_child(t, node, dir), old_nil, new_nil)

\* mutant: the parent link is left alone
rebind_nil_KeepsParent(t, node, old_nil, new_nil) ==
    IF node = old_nil THEN t
    ELSE rebind_child(rebind_child(t, node, LEFT, old_nil, new_nil),
                      node, RIGHT, old_nil, new_nil)

rebind_nil(t, node, old_nil, new_nil) ==
    IF node = old_nil THEN t
    ELSE rebind_child(
             rebind_child(
                 IF parent(t, node) = old_nil THEN set_parent(t, node, new_nil) ELSE t,
                 node, LEFT, old_nil, new_nil),
             node, RIGHT, old_nil, new_nil)

\* lines 105-110 and 133-138: t is *this, its nil_ at this_nil, and the
\* other tree has root_ other_root_ and its nil_ at other_nil_.  Returns
\* *this and other.root_ as they are left.
move_from(t, this_nil, other_root_, other_nil_) ==
    IF other_root_ = other_nil_ THEN [t |-> t, other_root |-> other_root_]
    ELSE [t          |-> reset_nil_links(
                             rebind_nil(set_root(t, other_root_), other_root_,
                                        other_nil_, this_nil),
                             other_nil_),
          other_root |-> other_nil_]

\* Tree(Tree&& other)
sentinel_move_construct(t, this_nil, other_root_, other_nil_) ==
    move_from(sentinel_construct(t, this_nil), this_nil, other_root_, other_nil_)

\* operator=(Tree&& other), this != &other
sentinel_move_assign(t, this_nil, other_root_, other_nil_) ==
    move_from(
        reset_nil_links(set_root(sentinel_clear(t, t.root, this_nil), this_nil),
                        this_nil),
        this_nil, other_root_, other_nil_)

RECURSIVE sentinel_clone_subtree(_, _, _, _, _)

\* lines 703-705 (dir = LEFT), 707-709 (dir = RIGHT): c is what the
\* recursive call returned; the child's parent was given to its constructor
sentinel_clone_attach(c, new_node, dir) ==
    [t    |-> IF dir = LEFT THEN set_left_child(c.t, new_node, c.node)
              ELSE set_right_child(c.t, new_node, c.node),
     node |-> new_node]

\* mutant: at the end of a branch the source's sentinel is returned
sentinel_clone_subtree_OtherNil(t, node, par, this_nil, other_nil_) ==
    IF node = other_nil_ THEN [t |-> t, node |-> other_nil_]
    ELSE LET a == NewAddr(t, value(t, node))
         IN  sentinel_clone_attach(
                 sentinel_clone_subtree(
                     sentinel_clone_attach(
                         sentinel_clone_subtree(
                             allocate(t, a, [value |-> value(t, node),
                                             color |-> color(t, node),
                                             left |-> this_nil, right |-> this_nil,
                                             parent |-> par]),
                             left_child(t, node), a, this_nil, other_nil_),
                         a, LEFT).t,
                     right_child(t, node), a, this_nil, other_nil_),
                 a, RIGHT)

\* clone_subtree of the tree whose nil_ lies at this_nil: returns the heap
\* with the clone allocated, and the clone's address
sentinel_clone_subtree(t, node, par, this_nil, other_nil_) ==
    IF node = other_nil_ THEN [t |-> t, node |-> this_nil]
    ELSE LET a == NewAddr(t, value(t, node))
         IN  sentinel_clone_attach(
                 sentinel_clone_subtree(
                     sentinel_clone_attach(
                         sentinel_clone_subtree(
                             allocate(t, a, [value |-> value(t, node),
                                             color |-> color(t, node),
                                             left |-> this_nil, right |-> this_nil,
                                             parent |-> par]),
                             left_child(t, node), a, this_nil, other_nil_),
                         a, LEFT).t,
                     right_child(t, node), a, this_nil, other_nil_),
                 a, RIGHT)

\* root_ = clone_subtree(...)
sentinel_root_is_clone(c) == set_root(c.t, c.node)

\* Tree(const Tree& other)
sentinel_copy_construct(t, this_nil, other_root_, other_nil_) ==
    sentinel_root_is_clone(
        sentinel_clone_subtree(sentinel_construct(t, this_nil), other_root_,
                               this_nil, this_nil, other_nil_))

\* ------------------------------------------------------------------ actions
\* Both trees constructed empty; the sentinel tree's constructor leaves
\* nil_(BLACK, &nil_, &nil_, &nil_) and root_(&nil_).
\* InitRest is all of that but the augmented tree and the reference set.
InitRest ==
    /\ op = [name |-> "ctor", args |-> << >>]
    /\ ret = TRUE
    /\ cases = {}
    /\ sentinel_root = nil_
    /\ sentinel_heap = [x \in {nil_} |-> [color |-> BLACK, left |-> nil_,
                                          right |-> nil_, parent |-> nil_]]
    /\ input = << >>
    /\ output = << >>
    /\ error = << >>
    /\ first_output = TRUE
    /\ returned = FALSE
    /\ exit_code = 0
    /\ commands = 0
    /\ results = << >>
    /\ other_alive = FALSE
    /\ other_root = NULL
    /\ other_model = {}
    /\ sentinel_other_root = other_nil
    /\ iterating = FALSE
    /\ current_ = NULL
    /\ fixing = "none"
    /\ fix_node = NULL
    /\ fix_parent = NULL
    /\ rb_checksum = 0
    /\ set_checksum = 0
    /\ operations = 0
    /\ reference = [tree |-> {}, first_output |-> TRUE, input |-> << >>,
                    output |-> << >>, returned |-> FALSE, status |-> 0]

Init ==
    /\ root_ = NULL
    /\ heap = [x \in {} |-> x]
    /\ model = {}
    /\ InitRest

\* a call on the augmented tree that may assign it: r is [t, ret], what the
\* call left
Call(name, args, r, m) ==
    /\ root_' = r.t.root
    /\ heap' = r.t.h
    /\ cases' = r.t.tr
    /\ ret' = r.ret
    /\ op' = [name |-> name, args |-> args]
    /\ model' = m
    /\ UNCHANGED <<sentinel_root, sentinel_heap, cli_vars, other_vars, iter_vars, fix_vars,
                   bench_vars, reference>>

Insert(v) == Call("insert", <<v>>, insert(Tree, v), model \cup {v})

Erase(v) == Call("erase", <<v>>, erase(Tree, v), model \ {v})

\* the const queries: no tree is assigned
Query(name, args, result) ==
    /\ op' = [name |-> name, args |-> args]
    /\ ret' = result
    /\ cases' = {}
    /\ UNCHANGED <<root_, heap, model, sentinel_root, sentinel_heap, cli_vars,
                   other_vars, iter_vars, fix_vars, bench_vars, reference>>

Distance(first, second) ==
    Query("distance", <<first, second>>, distance(Tree, first, second))

RankCompBound(v, cmp) ==
    Query("rank_comp_bound", <<v, cmp>>, rank_comp_bound(Tree, v, cmp))

Size == Query("size", << >>, size(Tree))

IsValid == Query("is_valid", << >>, is_valid(Tree))

Next ==
    \/ \E v \in Val : Insert(v)
    \/ \E v \in Val : Erase(v)
    \/ \E first, second \in Val : Distance(first, second)
    \/ \E v \in Val, cmp \in {CmpLower, CmpUpper} : RankCompBound(v, cmp)
    \/ Size
    \/ IsValid

Spec == Init /\ [][Next]_vars

\* ------------------------------------------------- larger trees, calls only
\* The same insert and erase on more values, the caller discarding the
\* returned bool (as in tree.insert(key);).  Of the branch labels only the
\* one that tells a second round of the erase fix-up loop is kept.
Watched == {"er_loop_again"}

CallDiscard(r, m) ==
    /\ root_' = r.t.root
    /\ heap' = r.t.h
    /\ cases' = r.t.tr \cap Watched
    /\ model' = m
    /\ UNCHANGED <<op, ret, sentinel_root, sentinel_heap, cli_vars, other_vars,
                   iter_vars, fix_vars, bench_vars, reference>>

InsertDiscard(v) == CallDiscard(insert(Tree, v), model \cup {v})

EraseDiscard(v) == CallDiscard(erase(Tree, v), model \ {v})

NextDeep ==
    \/ \E v \in DeepVal : InsertDiscard(v)
    \/ \E v \in DeepVal : EraseDiscard(v)

SpecDeep == Init /\ [][NextDeep]_vars

\* ------------------------------------------- the two trees fed the same calls
\* Each insert and erase is made on the augmented tree and on the sentinel
\* tree; r and s are what the call left in each, ret holds both results.
CallBoth(name, args, r, s, m) ==
    /\ root_' = r.t.root
    /\ heap' = r.t.h
    /\ cases' = r.t.tr \cap Watched
    /\ sentinel_root' = s.t.root
    /\ sentinel_heap' = s.t.h
    /\ ret' = <<r.ret, s.ret>>
    /\ op' = [name |-> name, args |-> args]
    /\ model' = m
    /\ UNCHANGED <<cli_vars, other_vars, iter_vars, fix_vars, bench_vars, reference>>

InsertBoth(v) ==
    CallBoth("both.insert", <<v>>, insert(Tree, v), sentinel_insert(SentinelTree, v),
             model \cup {v})

EraseBoth(v) ==
    CallBoth("both.erase", <<v>>, erase(Tree, v), sentinel_erase(SentinelTree, v),
             model \ {v})

RankLowerBound(v) ==
    Query("rank_lower_bound", <<v>>, rank_lower_bound(SentinelTree, v))

RankUpperBound(v) ==
    Query("rank_upper_bound", <<v>>, rank_upper_bound(SentinelTree, v))

NextBoth ==
    \/ \E v \in Val : InsertBoth(v)
    \/ \E v \in Val : EraseBoth(v)
    \/ \E v \in Val, cmp \in {CmpLower, CmpUpper} : RankCompBound(v, cmp)
    \/ \E v \in Val : RankLowerBound(v)
    \/ \E v \in Val : RankUpperBound(v)

SpecBoth == Init /\ [][NextBoth]_vars

\* ------------------------------------------------ positions and distances
\* Both trees fed the same calls on a few values, and asked for positions
\* and distances.
MaxDist == 5
DistVal == 1..MaxDist

DistanceFromRoot(v) ==
    Query("distance_from_root", <<v>>, distance_from_root(Tree, v))

SentinelDistanceFromRoot(v) ==
    Query("sentinel.distance_from_root", <<v>>,
          sentinel_distance_from_root(SentinelTree, v))

SentinelDistance(first, second) ==
    Query("sentinel.distance", <<first, second>>,
          sentinel_distance(SentinelTree, first, second))

NextDist ==
    \/ \E v \in DistVal : InsertBoth(v)
    \/ \E v \in DistVal : EraseBoth(v)
    \/ \E v \in DistVal : DistanceFromRoot(v)
    \/ \E v \in DistVal : SentinelDistanceFromRoot(v)
    \/ \E first, second \in DistVal : SentinelDistance(first, second)

SpecDist == Init /\ [][NextDist]_vars

\* ------------------------------------------------- the command interpreter
\* run_cli on a sentinel tree.  The input stream is delivered a piece at a
\* time: each turn of the loop sees what earlier turns left unread, then
\* white space, then one more piece, and after that piece the end of the
\* stream.  A turn that runs into the end of the stream returns, so the
\* pieces delivered are consistent with one input text.  The texts carry no
\* sign and their numbers are short, so the sign and overflow handling of
\* operator>> is never entered.
MaxKey == 3
MaxCmds == 6
CliKey == 1..MaxKey

DigitChar == <<"0", "1", "2", "3", "4", "5", "6", "7", "8", "9">>

\* output << result, a size_t written in decimal
RECURSIVE format(_)
format(n) ==
    IF n < 10 THEN <<DigitChar[n + 1]>>
    ELSE format(n \div 10) \o <<DigitChar[(n % 10) + 1]>>

RECURSIVE skip_ws(_)
skip_ws(s) == IF s # << >> /\ Head(s) = " " THEN skip_ws(Tail(s)) ELSE s

\* input >> action, a char: white space is skipped, one character is taken
extract_char(s) ==
    LET r == skip_ws(s)
    IN  IF r = << >> THEN [ok |-> FALSE, c |-> "", rest |-> r]
        ELSE [ok |-> TRUE, c |-> Head(r), rest |-> Tail(r)]

\* the digits of input >> key: taken while they last, none is a failure
RECURSIVE extract_digits(_, _, _)
extract_digits(s, acc, any) ==
    IF s # << >> /\ (\E d \in 0..9 : DigitChar[d + 1] = Head(s))
    THEN extract_digits(Tail(s),
             10 * acc + (CHOOSE d \in 0..9 : DigitChar[d + 1] = Head(s)), TRUE)
    ELSE [ok |-> any, v |-> acc, rest |-> s]

\* input >> key, an int
extract_int(s) == extract_digits(skip_ws(s), 0, FALSE)

\* mutant: the ranks are subtracted whichever is larger
handle_query_AbsDifference(t, left, right, first, out) ==
    LET right_rank == rank_upper_bound(t, right)
        left_rank  == rank_upper_bound(t, left)
        result     == IF right_rank > left_rank THEN right_rank - left_rank
                      ELSE left_rank - right_rank
    IN  [result       |-> result,
         output       |-> (IF ~first THEN out \o <<" ">> ELSE out) \o format(result),
         first_output |-> FALSE]

\* mutant: first_output is never cleared
handle_query_FirstForEver(t, left, right, first, out) ==
    LET right_rank == rank_upper_bound(t, right)
        left_rank  == rank_upper_bound(t, left)
        result     == IF right > left /\ right_rank > left_rank
                      THEN right_rank - left_rank ELSE 0
    IN  [result       |-> result,
         output       |-> (IF ~first THEN out \o <<" ">> ELSE out) \o format(result),
         first_output |-> first]

\* handle_query: what it leaves in output and first_output, and the result
\* it wrote
handle_query(t, left, right, first, out) ==
    LET right_rank == rank_upper_bound(t, right)
        left_rank  == rank_upper_bound(t, left)
        result     == IF right > left /\ right_rank > left_rank
                      THEN right_rank - left_rank ELSE 0
    IN  [result       |-> result,
         output       |-> (IF ~first THEN out \o <<" ">> ELSE out) \o format(result),
         first_output |-> FALSE]

\* mutant: the diagnostic is written and the loop goes on
Halt_GoesOn(msg, rest, o) ==
    /\ error' = error \o msg
    /\ input' = rest
    /\ op' = o
    /\ UNCHANGED <<sentinel_root, sentinel_heap, model, ret, output,
                   first_output, returned, exit_code, results>>

\* error << msg; return 1;
Halt(msg, rest, o) ==
    /\ error' = error \o msg
    /\ returned' = TRUE
    /\ exit_code' = 1
    /\ input' = rest
    /\ op' = o
    /\ UNCHANGED <<sentinel_root, sentinel_heap, model, ret, output, first_output,
                   results>>

\* lines 64-68: the stream has ended
CliReturn(rest) ==
    /\ output' = IF ~first_output THEN output \o <<"\n">> ELSE output
    /\ returned' = TRUE
    /\ exit_code' = 0
    /\ input' = rest
    /\ op' = [name |-> "eof", args |-> << >>]
    /\ UNCHANGED <<sentinel_root, sentinel_heap, model, ret, error, first_output,
                   results>>

\* lines 43-49: key is what input >> key gave, s what tree.insert(key) leaves
CliInsert(key, s) ==
    IF ~key.ok
    THEN Halt(<<"Failed to read key value\n">>, key.rest,
              [name |-> "k", args |-> << >>])
    ELSE /\ sentinel_root' = s.t.root
         /\ sentinel_heap' = s.t.h
         /\ model' = model \cup {key.v}
         /\ input' = key.rest
         /\ op' = [name |-> "k", args |-> <<key.v>>]
         /\ UNCHANGED <<ret, output, error, first_output, returned, exit_code,
                        results>>

\* lines 50-57: right is read only if left was
CliQuery(left, right, q) ==
    IF ~left.ok \/ ~right.ok
    THEN Halt(<<"Failed to read query bounds\n">>,
              IF left.ok THEN right.rest ELSE left.rest,
              [name |-> "q", args |-> IF left.ok THEN <<left.v>> ELSE << >>])
    ELSE /\ output' = q.output
         /\ first_output' = q.first_output
         /\ ret' = q.result
         /\ results' = Append(results, q.result)
         /\ input' = right.rest
         /\ op' = [name |-> "q", args |-> <<left.v, right.v>>]
         /\ UNCHANGED <<sentinel_root, sentinel_heap, model, error, returned, exit_code>>

\* one turn of the loop of run_cli on the stream as it stands, or its return
CliCommand(action) ==
    IF ~action.ok THEN CliReturn(action.rest)
    ELSE IF action.c = "k"
         THEN CliInsert(extract_int(action.rest),
                        sentinel_insert(SentinelTree, extract_int(action.rest).v))
    ELSE IF action.c = "q"
         THEN CliQuery(extract_int(action.rest),
                       extract_int(extract_int(action.rest).rest),
                       handle_query(SentinelTree, extract_int(action.rest).v,
                                    extract_int(extract_int(action.rest).rest).v,
                                    first_output, output))
    ELSE Halt(<<"Unknown command: ", action.c, "\n">>, action.rest,
              [name |-> action.c, args |-> << >>])

CliTurn(piece) ==
    /\ ~returned
    /\ commands < MaxCmds \/ piece = << >>
    /\ commands' = commands + 1
    /\ UNCHANGED <<root_, heap, cases, other_vars, iter_vars, fix_vars, bench_vars>>
    /\ CliCommand(extract_char(input \o <<" ">> \o piece))

RunCli(piece) == CliTurn(piece) /\ UNCHANGED reference

\* the pieces: commands spelt with and without white space and leading
\* zeros, commands cut short, and the empty piece that ends the stream
Numerals == UNION {{format(v), <<"0">> \o format(v)} : v \in CliKey}

Pieces ==
    {<<"k">> \o sep \o a : sep \in {<< >>, <<" ">>}, a \in Numerals}
    \cup {<<"q", " ">> \o a \o <<" ">> \o b : a, b \in {format(v) : v \in CliKey}}
    \cup {<<"q">> \o a \o <<" ">> \o a \o <<"x">> : a \in {format(v) : v \in CliKey}}
    \cup {<<"x">>, <<"k">>, <<"k", " ", "x">>, <<"q">>, <<"q", " ", "1">>,
          <<"q", " ", "x", " ", "1">>, <<"q", " ", "1", " ", "x">>, << >>}

NextCli == \E piece \in Pieces : RunCli(piece)

SpecCli == Init /\ [][NextCli]_vars

\* ------------------------------------------------------------ the benchmark
\* run_rb_tree and run_std_set go through the same vector of operations, one
\* after the other; neither reads what the other writes, so here they take
\* each operation together.  The sentinel tree is run_rb_tree's tree, model
\* is run_std_set's std::set<int>.  The operations are among those
\* build_workload produces: type k with a value a, type q with values a and
\* b, the values between 1 and max_value.
MaxBench == 4      \* opts.max_value
MaxOps == 5        \* opts.operation_count
BenchVal == 1..MaxBench

\* lines 108-115: the result of an operation of type q in run_rb_tree
rb_tree_result(t, a, b) ==
    IF b > a /\ rank_upper_bound(t, b) > rank_upper_bound(t, a)
    THEN rank_upper_bound(t, b) - rank_upper_bound(t, a)
    ELSE 0

\* a std::set<int> in iteration order
RECURSIVE Ascending(_)
Ascending(S) ==
    IF S = {} THEN << >>
    ELSE <<CHOOSE m \in S : \A x \in S : m <= x>>
         \o Ascending(S \ {CHOOSE m \in S : \A x \in S : m <= x})

\* std::set::upper_bound(v) as a position in the iteration order: that of
\* the first element greater than v, one past the last for end()
std_upper_bound(S, v) ==
    IF \E i \in 1..Cardinality(S) : Ascending(S)[i] > v
    THEN CHOOSE i \in 1..Cardinality(S) :
             /\ Ascending(S)[i] > v
             /\ \A j \in 1..(i - 1) : ~(Ascending(S)[j] > v)
    ELSE Cardinality(S) + 1

\* lines 136-142: the result of an operation of type q in run_std_set
std_set_result(S, a, b) ==
    IF b > a THEN std_upper_bound(S, b) - std_upper_bound(S, a) ELSE 0

\* checksum += result, on a std::size_t: past SIZE_MAX it wraps
add_checksum(checksum, result) ==
    IF checksum > SIZE_MAX - result THEN checksum - (SIZE_MAX - result) - 1
    ELSE checksum + result

Bench(o, s, m, rb, set) ==
    /\ operations < MaxOps
    /\ operations' = operations + 1
    /\ op' = o
    /\ sentinel_root' = s.root
    /\ sentinel_heap' = s.h
    /\ model' = m
    /\ rb_checksum' = rb
    /\ set_checksum' = set
    /\ cases' = {}
    /\ UNCHANGED <<root_, heap, ret, cli_vars, other_vars, iter_vars, fix_vars,
                   reference>>

\* op.type == 'k': tree.insert(op.a) in both runs
BenchInsert(a) ==
    Bench([name |-> "bench.k", args |-> <<a>>], sentinel_insert(SentinelTree, a).t,
          model \cup {a}, rb_checksum, set_checksum)

\* op.type == 'q'
BenchQuery(a, b) ==
    Bench([name |-> "bench.q", args |-> <<a, b>>], SentinelTree, model,
          add_checksum(rb_checksum, rb_tree_result(SentinelTree, a, b)),
          add_checksum(set_checksum, std_set_result(model, a, b)))

NextBench ==
    \/ \E a \in BenchVal : BenchInsert(a)
    \/ \E a, b \in BenchVal : BenchQuery(a, b)

SpecBench == Init /\ [][NextBench]_vars

\* ------------------------------------------------- the reference program
\* main of the std::set program, fed the text run_cli is fed: each turn of
\* its loop sees what its earlier turns left unread, then white space, then
\* the piece run_cli is given in the same step.  r is the program's state:
\* its tree, first_output, std::cin (input), std::cout (output), whether it
\* has returned and with what.  The numbers of the texts are short, so a
\* long long is read as an int is.

\* std::set::lower_bound(v) as a position in the iteration order: that of
\* the first element not less than v, one past the last for end()
std_lower_bound(S, v) ==
    IF \E i \in 1..Cardinality(S) : Ascending(S)[i] >= v
    THEN CHOOSE i \in 1..Cardinality(S) :
             /\ Ascending(S)[i] >= v
             /\ \A j \in 1..(i - 1) : ~(Ascending(S)[j] >= v)
    ELSE Cardinality(S) + 1

\* return 1;
reference_fails(r, rest) ==
    [r EXCEPT !.returned = TRUE, !.status = 1, !.input = rest]

\* if (!first_output) std::cout << ' '; std::cout << result;
\* first_output = false;
reference_writes(r, result, rest) ==
    [r EXCEPT !.output = (IF ~r.first_output THEN @ \o <<" ">> ELSE @) \o format(result),
              !.first_output = FALSE,
              !.input = rest]

\* lines 16-41: command == 'q'
reference_query(r, left, right) ==
    IF ~left.ok THEN reference_fails(r, left.rest)
    ELSE IF ~right.ok THEN reference_fails(r, right.rest)
    ELSE IF right.v < left.v THEN reference_writes(r, 0, right.rest)
    ELSE reference_writes(r, std_upper_bound(r.tree, right.v)
                                 - std_lower_bound(r.tree, left.v),
                          right.rest)

\* lines 10-15: command == 'k'
reference_key(r, key) ==
    IF ~key.ok THEN reference_fails(r, key.rest)
    ELSE [r EXCEPT !.tree = @ \cup {key.v}, !.input = key.rest]

\* lines 9-50: one turn of the loop on the stream as it stands, or the end
\* of main
reference_turn(r, command) ==
    IF ~command.ok
    THEN [r EXCEPT !.output = IF ~r.first_output THEN @ \o <<"\n">> ELSE @,
                   !.returned = TRUE,
                   !.status = 0,
                   !.input = command.rest]
    ELSE IF command.c = "k" THEN reference_key(r, extract_int(command.rest))
    ELSE IF command.c = "q"
         THEN reference_query(r, extract_int(command.rest),
                              extract_int(extract_int(command.rest).rest))
    ELSE reference_fails(r, command.rest)

\* both programs take the next piece of the text.  On these texts the two
\* stop reading at the same places, so one step is a turn of each loop.
RunBoth(piece) ==
    /\ ~reference.returned
    /\ CliTurn(piece)
    /\ reference' = reference_turn(reference,
                                   extract_char(reference.input \o <<" ">> \o piece))

NextRef == \E piece \in Pieces : RunBoth(piece)

SpecRef == Init /\ [][NextRef]_vars

\* ---------------------------------------------------- copies of the tree
\* A second augmented tree, other, beside the first: constructed empty or as
\* a copy, assigned a copy, destroyed, and changed by its own inserts and
\* erases.  Its nodes lie in the same heap.
MaxCopy == 3
CopyVal == 1..MaxCopy

OtherTree == [root |-> other_root, h |-> heap, tr |-> {}]

\* a step on the second augmented tree: h and r are the heap and its root_
\* as the step leaves them, o is what op becomes
Other(o, h, r, m, alive) ==
    /\ heap' = h
    /\ other_root' = r
    /\ other_model' = m
    /\ other_alive' = alive
    /\ op' = o
    /\ cases' = {}
    /\ UNCHANGED <<root_, model, ret, sentinel_root, sentinel_heap,
                   sentinel_other_root, cli_vars, iter_vars, fix_vars,
                   bench_vars, reference>>

\* a call on the second tree, its arguments left out
Lifetime(name) == [name |-> name, args |-> << >>]

\* Tree other;
ConstructOther ==
    /\ ~other_alive
    /\ Other(Lifetime("other.ctor"), heap, NULL, {}, TRUE)

\* ~Tree() of other
DestroyOther ==
    /\ other_alive
    /\ Other(Lifetime("other.dtor"), clear(OtherTree, other_root).h, NULL, {}, FALSE)

\* Tree other(tree); c is what clone_subtree returned
CopyConstruct(c) ==
    /\ ~other_alive
    /\ Other(Lifetime("other.copy_ctor"), c.t.h, c.node, model, TRUE)

\* other = tree; tmp is the copy c, the move assignment swaps tmp's root_
\* into other, and the temporary that holds other's old root_ is destroyed
CopyAssign(c) ==
    /\ other_alive
    /\ Other(Lifetime("other.copy_assign"), clear(c.t, other_root).h, c.node,
             model, TRUE)

\* other.insert(v); and other.erase(v); the returned bool discarded.  r is
\* what the call left
InsertOther(v, r) ==
    /\ other_alive
    /\ Other(Lifetime("other.insert"), r.t.h, r.t.root, other_model \cup {v}, TRUE)

EraseOther(v, r) ==
    /\ other_alive
    /\ Other(Lifetime("other.erase"), r.t.h, r.t.root, other_model \ {v}, TRUE)

NextCopy ==
    \/ \E v \in CopyVal : InsertDiscard(v)
    \/ \E v \in CopyVal : EraseDiscard(v)
    \/ \E v \in CopyVal : InsertOther(v, insert(OtherTree, v))
    \/ \E v \in CopyVal : EraseOther(v, erase(OtherTree, v))
    \/ ConstructOther
    \/ DestroyOther
    \/ CopyConstruct(clone_subtree(Tree, root_, NULL))
    \/ CopyAssign(clone_subtree(Tree, root_, NULL))

SpecCopy == Init /\ [][NextCopy]_vars

\* ------------------------------------------------------ moves of the tree
\* Both kinds of tree, fed the same calls, each with a second object that is
\* only constructed, moved into, moved from and destroyed.  a and s are the
\* augmented and the sentinel side as the step leaves them: a is
\* [h, root, other_root], s is [t, other_root] with t the first tree.
Moved(name, a, s, m, om, alive) ==
    /\ heap' = a.h
    /\ root_' = a.root
    /\ other_root' = a.other_root
    /\ sentinel_heap' = s.t.h
    /\ sentinel_root' = s.t.root
    /\ sentinel_other_root' = s.other_root
    /\ model' = m
    /\ other_model' = om
    /\ other_alive' = alive
    /\ op' = [name |-> name, args |-> << >>]
    /\ ret' = TRUE
    /\ cases' = {}
    /\ UNCHANGED <<cli_vars, iter_vars, fix_vars, bench_vars, reference>>

\* Tree other; of both kinds
ConstructBoth ==
    /\ ~other_alive
    /\ Moved("both.other.ctor",
             [h |-> heap, root |-> root_, other_root |-> NULL],
             [t |-> [root |-> sentinel_root,
                     h |-> sentinel_construct(SentinelOtherTree, other_nil).h],
              other_root |-> other_nil],
             model, {}, TRUE)

\* ~Tree() of both others; the sentinel tree's nil_ goes with the object
DestroyBoth ==
    /\ other_alive
    /\ Moved("both.other.dtor",
             [h |-> clear(OtherTree, other_root).h, root |-> root_, other_root |-> NULL],
             [t |-> [root |-> sentinel_root,
                     h |-> delete_node(sentinel_clear(SentinelOtherTree,
                                                      sentinel_other_root, other_nil),
                                       other_nil).h],
              other_root |-> other_nil],
             model, {}, FALSE)

\* mv is what the sentinel tree's move left: [t, other_root], t being other
MovedToOther(name, h, mv) ==
    Moved(name, [h |-> h, root |-> NULL, other_root |-> root_],
          [t |-> [root |-> mv.other_root, h |-> mv.t.h], other_root |-> mv.t.root],
          {}, model, TRUE)

\* Tree other(std::move(tree)); root_(std::exchange(other.root_, nullptr))
MoveConstruct ==
    /\ ~other_alive
    /\ MovedToOther("both.move_ctor", heap,
                    sentinel_move_construct(SentinelOtherTree, other_nil,
                                            sentinel_root, nil_))

\* other = std::move(tree); the augmented tree swaps root_ with a temporary
\* made from tree, and the temporary's destructor clears other's old nodes
MoveAssign ==
    /\ other_alive
    /\ MovedToOther("both.move_assign", clear(OtherTree, other_root).h,
                    sentinel_move_assign(SentinelOtherTree, other_nil,
                                         sentinel_root, nil_))

\* tree = std::move(other);
MoveAssignBack ==
    /\ other_alive
    /\ Moved("both.move_assign_back",
             [h |-> clear(Tree, root_).h, root |-> other_root, other_root |-> NULL],
             sentinel_move_assign(SentinelTree, nil_, sentinel_other_root, other_nil),
             other_model, {}, TRUE)

NextMove ==
    \/ \E v \in CopyVal : InsertBoth(v)
    \/ \E v \in CopyVal : EraseBoth(v)
    \/ ConstructBoth
    \/ DestroyBoth
    \/ MoveConstruct
    \/ MoveAssign
    \/ MoveAssignBack

SpecMove == Init /\ [][NextMove]_vars

\* ------------------------------------------- two sentinel trees, copies too
\* The sentinel tree on its own with a second one that is a copy of it, or
\* what was moved out of it.  s is [t, other_root]: the first tree and the
\* heap, and the second tree's root_.
SentinelCall(name, args, s, r, m, om, alive) ==
    /\ sentinel_heap' = s.t.h
    /\ sentinel_root' = s.t.root
    /\ sentinel_other_root' = s.other_root
    /\ model' = m
    /\ other_model' = om
    /\ other_alive' = alive
    /\ op' = [name |-> name, args |-> args]
    /\ ret' = r
    /\ cases' = {}
    /\ UNCHANGED <<root_, heap, other_root, cli_vars, iter_vars, fix_vars,
                   bench_vars, reference>>

SentinelInsert(v) ==
    SentinelCall("sentinel.insert", <<v>>,
                 [t |-> sentinel_insert(SentinelTree, v).t,
                  other_root |-> sentinel_other_root],
                 sentinel_insert(SentinelTree, v).ret, model \cup {v}, other_model,
                 other_alive)

SentinelErase(v) ==
    SentinelCall("sentinel.erase", <<v>>,
                 [t |-> sentinel_erase(SentinelTree, v).t,
                  other_root |-> sentinel_other_root],
                 sentinel_erase(SentinelTree, v).ret, model \ {v}, other_model,
                 other_alive)

\* what a constructor or an assignment of the second tree left: other is the
\* second tree and the heap, first_root the first tree's root_
SentinelOther(name, other, first_root, m, om, alive) ==
    SentinelCall(name, << >>,
                 [t |-> set_root(other, first_root), other_root |-> other.root],
                 TRUE, m, om, alive)

\* Tree other(tree);
SentinelCopyConstruct ==
    /\ ~other_alive
    /\ SentinelOther("sentinel.copy_ctor",
                     sentinel_copy_construct(SentinelOtherTree, other_nil,
                                             sentinel_root, nil_),
                     sentinel_root, model, model, TRUE)

\* mv is what a move into the second tree left: [t, other_root], t being the
\* second tree
SentinelMovedToOther(name, mv) ==
    SentinelOther(name, mv.t, mv.other_root, {}, model, TRUE)

\* Tree other(std::move(tree));
SentinelMoveConstruct ==
    /\ ~other_alive
    /\ SentinelMovedToOther("sentinel.move_ctor",
                            sentinel_move_construct(SentinelOtherTree, other_nil,
                                                    sentinel_root, nil_))

\* other = std::move(tree);
SentinelMoveAssign ==
    /\ other_alive
    /\ SentinelMovedToOther("sentinel.move_assign",
                            sentinel_move_assign(SentinelOtherTree, other_nil,
                                                 sentinel_root, nil_))

\* tree = std::move(other);
SentinelMoveAssignBack ==
    /\ other_alive
    /\ SentinelCall("sentinel.move_assign_back", << >>,
                    sentinel_move_assign(SentinelTree, nil_, sentinel_other_root,
                                         other_nil),
                    TRUE, other_model, {}, TRUE)

\* ~Tree() of the second tree; its nil_ goes with the object
SentinelDestroyOther ==
    /\ other_alive
    /\ SentinelCall("sentinel.other.dtor", << >>,
                    [t |-> set_root(delete_node(
                                        sentinel_clear(SentinelOtherTree,
                                                       sentinel_other_root, other_nil),
                                        other_nil),
                                    sentinel_root),
                     other_root |-> other_nil],
                    TRUE, model, {}, FALSE)

NextNil ==
    \/ \E v \in CopyVal : SentinelInsert(v)
    \/ \E v \in CopyVal : SentinelErase(v)
    \/ SentinelCopyConstruct
    \/ SentinelMoveConstruct
    \/ SentinelMoveAssign
    \/ SentinelMoveAssignBack
    \/ SentinelDestroyOther

SpecNil == Init /\ [][NextNil]_vars

\* ------------------------------------------- the two trees, no queries
\* insert and erase on both trees, on enough values for a node with two
\* children whose successor lies deeper and has a child.
MaxPair == 6
PairVal == 1..MaxPair

NextPair ==
    \/ \E v \in PairVal : InsertBoth(v)
    \/ \E v \in PairVal : EraseBoth(v)

SpecPair == Init /\ [][NextPair]_vars

\* ------------------------------------------------------- inserts only
\* Trees grown by insert alone, on enough values for a fix-up that
\* recolours, moves up two levels and rotates there.
MaxRot == 8
RotVal == 1..MaxRot

NextRot == \E v \in RotVal : Insert(v)

SpecRot == Init /\ [][NextRot]_vars

\* ------------------------------------------------ is_valid on any colouring
\* is_valid() as a function of the nodes it is given: the tree is any shape
\* of at most MaxShape nodes in any colouring, its keys in search-tree order
\* or in the reverse of it, its subtree sizes right or all 0.  The node at
\* address a has its children at 2a and 2a + 1.
MaxShape == 4

RECURSIVE ShapesOf(_)
ShapesOf(k) ==
    IF k = 0 THEN {{}}
    ELSE ShapesOf(k - 1)
         \cup {S \cup {a} : S \in {T \in ShapesOf(k - 1) : T = {}}, a \in {1}}
         \cup UNION {{S \cup {a} : a \in {2 * i : i \in S} \cup {2 * i + 1 : i \in S}} :
                       S \in ShapesOf(k - 1)}

RECURSIVE Depth(_)
Depth(a) == IF a = 1 THEN 0 ELSE 1 + Depth(a \div 2)

RECURSIVE Pow2(_)
Pow2(n) == IF n = 0 THEN 1 ELSE 2 * Pow2(n - 1)

\* a key for the node at a that puts the nodes in search-tree order
KeyAt(a) == (2 * (a - Pow2(Depth(a))) + 1) * Pow2(MaxShape - 1 - Depth(a))

RECURSIVE Below(_, _)
Below(S, a) == IF a \notin S THEN {} ELSE {a} \cup Below(S, 2 * a) \cup Below(S, 2 * a + 1)

NodeAt(S, c, ordered, sized, a) ==
    [value        |-> IF ordered THEN KeyAt(a) ELSE Pow2(MaxShape) - KeyAt(a),
     color        |-> c[a],
     left         |-> IF 2 * a \in S THEN 2 * a ELSE NULL,
     right        |-> IF 2 * a + 1 \in S THEN 2 * a + 1 ELSE NULL,
     parent       |-> IF a = 1 THEN NULL ELSE a \div 2,
     subtree_size |-> IF sized THEN Cardinality(Below(S, a)) ELSE 0]

InitColour ==
    /\ \E S \in ShapesOf(MaxShape) :
          \E c \in [S -> {RED, BLACK}], ordered \in BOOLEAN, sized \in BOOLEAN :
              /\ root_ = IF S = {} THEN NULL ELSE 1
              /\ heap = [a \in S |-> NodeAt(S, c, ordered, sized, a)]
              /\ model = {NodeAt(S, c, ordered, sized, a).value : a \in S}
    /\ InitRest

NextColour == IsValid

SpecColour == InitColour /\ [][NextColour]_vars

\* ------------------------------------------------------------ iterators
\* One iterator of the augmented tree at a time, made by begin(), end(),
\* lower_bound or upper_bound, moved by ++ and --, read by *, and destroyed
\* before the tree is assigned again (erase would leave it dangling).  A
\* failed assertion ends the run; the iterator is gone with it.  The other
\* const calls come in between.
MaxIter == 5
IterVal == 1..MaxIter

Iter(name, args, r, alive, cur) ==
    /\ op' = [name |-> name, args |-> args]
    /\ ret' = r
    /\ cases' = {}
    /\ iterating' = alive
    /\ current_' = cur
    /\ UNCHANGED <<root_, heap, model, sentinel_root, sentinel_heap, cli_vars,
                   other_vars, fix_vars, bench_vars, reference>>

Begin == ~iterating /\ Iter("begin", << >>, TRUE, TRUE, begin(Tree))

End == ~iterating /\ Iter("end", << >>, TRUE, TRUE, end(Tree))

\* mutant: a lower_bound that paints the root RED on its way
LowerBound_PaintsRoot(v) ==
    /\ ~iterating
    /\ root_ # NULL
    /\ op' = [name |-> "lower_bound", args |-> <<v>>]
    /\ ret' = TRUE
    /\ cases' = {}
    /\ iterating' = TRUE
    /\ current_' = lower_bound(Tree, v)
    /\ heap' = [heap EXCEPT ![root_].color = RED]
    /\ UNCHANGED <<root_, model, sentinel_root, sentinel_heap, cli_vars, other_vars,
                   fix_vars, bench_vars, reference>>

LowerBound(v) ==
    ~iterating /\ Iter("lower_bound", <<v>>, TRUE, TRUE, lower_bound(Tree, v))

UpperBound(v) ==
    ~iterating /\ Iter("upper_bound", <<v>>, TRUE, TRUE, upper_bound(Tree, v))

Dereference ==
    /\ iterating
    /\ Iter("*", << >>, operator_star(Tree, current_),
            operator_star(Tree, current_) # ASSERT_FAILED, current_)

Increment ==
    /\ iterating
    /\ LET r == operator_increment(Tree, current_)
       IN  Iter("++", << >>, IF r.failed THEN ASSERT_FAILED ELSE TRUE,
                ~r.failed, r.current_)

Decrement ==
    /\ iterating
    /\ LET r == operator_decrement(Tree, current_)
       IN  Iter("--", << >>, IF r.failed THEN ASSERT_FAILED ELSE TRUE,
                ~r.failed, r.current_)

\* the iterator goes out of scope
Drop == iterating /\ Iter("~iterator", << >>, TRUE, FALSE, NULL)

Empty == Query("empty", << >>, empty(Tree))

NextIter ==
    \/ \E v \in IterVal : ~iterating /\ Insert(v)
    \/ \E v \in IterVal : ~iterating /\ Erase(v)
    \/ Begin
    \/ End
    \/ \E v \in IterVal : LowerBound(v)
    \/ \E v \in IterVal : UpperBound(v)
    \/ Dereference
    \/ Increment
    \/ Decrement
    \/ Drop
    \/ ~iterating /\ Size
    \/ ~iterating /\ Empty
    \/ ~iterating /\ IsValid
    \/ \E v \in IterVal : ~iterating /\ DistanceFromRoot(v)
    \/ \E first, second \in IterVal : ~iterating /\ Distance(first, second)
    \/ \E v \in IterVal, cmp \in {CmpLower, CmpUpper} :
          ~iterating /\ RankCompBound(v, cmp)

SpecIter == Init /\ [][NextIter]_vars

\* ===================================================== properties
\* What the tree looks like, read off the heap without the tree's own
\* operations.

RECURSIVE Reach(_, _)
Reach(t, n) ==
    IF n = NULL THEN {}
    ELSE {n} \cup Reach(t, t.h[n].left) \cup Reach(t, t.h[n].right)

Nodes == Reach(Tree, root_)

RECURSIVE InOrder(_, _)
InOrder(t, n) ==
    IF n = NULL THEN << >>
    ELSE InOrder(t, t.h[n].left) \o <<t.h[n].value>> \o InOrder(t, t.h[n].right)

Stored == {heap[n].value : n \in Nodes}

\* black nodes on each path from n down to an absent-child position
RECURSIVE PathBlacks(_, _)
PathBlacks(t, n) ==
    IF n = NULL THEN {0}
    ELSE {b + (IF t.h[n].color = BLACK THEN 1 ELSE 0) :
            b \in PathBlacks(t, t.h[n].left) \cup PathBlacks(t, t.h[n].right)}

RootBlack == root_ # NULL => heap[root_].color = BLACK

NoRedRed ==
    \A n \in Nodes :
        heap[n].color = RED =>
            /\ heap[n].left # NULL => heap[heap[n].left].color # RED
            /\ heap[n].right # NULL => heap[heap[n].right].color # RED

BlackHeightUniform == \A n \in Nodes : Cardinality(PathBlacks(Tree, n)) = 1

\* C1: after every insert and erase is_valid() holds: the root is BLACK, no
\* RED node has a RED child, and all paths from a node to an absent child
\* carry the same number of BLACK nodes.
C1_IsValidAlways ==
    /\ is_valid(Tree)
    /\ RootBlack
    /\ NoRedRed
    /\ BlackHeightUniform

\* an erase whose fix-up moved the double-black node up and went round the
\* loop a second time
C1_Witness ==
    /\ "er_loop_again" \in cases
    /\ Cardinality(Nodes) >= 6
    /\ is_valid(Tree)

\* C2: the tree is a binary search tree without duplicates and its in-order
\* traversal is strictly increasing.
C2_SearchTreeOrder ==
    /\ \A n \in Nodes :
          /\ \A m \in Reach(Tree, heap[n].left) : heap[m].value < heap[n].value
          /\ \A m \in Reach(Tree, heap[n].right) : heap[m].value > heap[n].value
    /\ LET io == InOrder(Tree, root_)
       IN  \A i \in 1..(Len(io) - 1) : io[i] < io[i + 1]

\* an erase that moved a successor from deeper in the right subtree
C2_Witness ==
    /\ op.name = "erase" /\ ret = TRUE
    /\ "det_succ_deep" \in cases
    /\ Len(InOrder(Tree, root_)) >= 4

\* C3: after every insert or erase every node's subtree_size is
\* 1 + size of left child + size of right child (absent child: 0).
C3_SizesConsistent ==
    \A n \in Nodes :
        heap[n].subtree_size =
            1 + (IF heap[n].left = NULL THEN 0 ELSE heap[heap[n].left].subtree_size)
              + (IF heap[n].right = NULL THEN 0 ELSE heap[heap[n].right].subtree_size)

\* an erase whose fix-up went round the loop twice, on a tree that keeps a
\* node with two non-empty subtrees
C3_Witness ==
    /\ "er_loop_again" \in cases
    /\ \E n \in Nodes : /\ heap[n].left # NULL /\ heap[n].right # NULL
                         /\ heap[n].subtree_size >= 5

\* number of ++ steps from position it to end()
RECURSIVE StepsToEnd(_, _)
StepsToEnd(t, it) == IF it = end(t) THEN 0 ELSE 1 + StepsToEnd(t, next(t, it))

\* C4: size() is the number of distinct values inserted and not erased since,
\* and the number of elements a traversal from begin() to end() yields.
C4_SizeCorrect ==
    /\ size(Tree) = Cardinality(model)
    /\ size(Tree) = StepsToEnd(Tree, begin(Tree))
    /\ op.name = "size" => ret = Cardinality(model)

C4_Witness ==
    /\ op.name = "size"
    /\ ret >= 3
    /\ ret < MaxVal
\* C5: insert(v) of a stored value returns false and leaves nodes, links,
\* colors and subtree sizes as they were.
C5_DuplicateInsertNoOp ==
    [][ (op'.name = "insert" /\ op'.args[1] \in Stored)
            => (ret' = FALSE /\ root_' = root_ /\ heap' = heap) ]_vars

C5_Witness ==
    /\ op.name = "insert" /\ ret = FALSE
    /\ op.args[1] \in Stored
    /\ Cardinality(Nodes) >= 3

\* C6: erase(v) of a value not stored returns false and leaves nodes, links,
\* colors and subtree sizes as they were.
C6_AbsentEraseNoOp ==
    [][ (op'.name = "erase" /\ op'.args[1] \notin Stored)
            => (ret' = FALSE /\ root_' = root_ /\ heap' = heap) ]_vars

C6_Witness ==
    /\ op.name = "erase" /\ ret = FALSE
    /\ op.args[1] \notin Stored
    /\ Cardinality(Nodes) >= 3

\* C7: the tree is a set: insert(v) returns true exactly when v was absent
\* and then the values are old + {v}; erase(v) returns true exactly when v
\* was present and then the values are old - {v}.
C7_SetSemantics ==
    [][ /\ op'.name = "insert" =>
              /\ ret' = (op'.args[1] \notin Stored)
              /\ Stored' = Stored \cup {op'.args[1]}
        /\ op'.name = "erase" =>
              /\ ret' = (op'.args[1] \in Stored)
              /\ Stored' = Stored \ {op'.args[1]} ]_vars

\* a successful erase of an inner value that leaves several values behind
C7_Witness ==
    /\ op.name = "erase" /\ ret = TRUE
    /\ op.args[1] \notin Stored
    /\ \E a, b \in Stored : a < op.args[1] /\ op.args[1] < b
    /\ Stored = model

CountIn(lo, hi) == Cardinality({x \in Stored : lo <= x /\ x <= hi})
CountBelow(v)   == Cardinality({x \in Stored : x < v})     \* rank-lower
CountUpTo(v)    == Cardinality({x \in Stored : x <= v})    \* rank-upper

SentinelInOrder == InOrder(SentinelTree, sentinel_root)
SentinelStored  == {sentinel_heap[n].value : n \in Reach(SentinelTree, sentinel_root)}

\* ranks as counts over what a tree stores
RankLowerIs(r, v, stored, io, sz) ==
    /\ r = Cardinality({x \in stored : x < v})
    /\ v \in stored => io[r + 1] = v
    /\ \A i \in 1..Len(io) : (i <= r) = (io[i] < v)
    /\ (\A x \in stored : ~(x >= v)) => r = sz

RankUpperIs(r, v, stored, io, sz) ==
    /\ r = Cardinality({x \in stored : x <= v})
    /\ \A i \in 1..Len(io) : (i <= r) = (io[i] <= v)
    /\ (\A x \in stored : ~(x > v)) => r = sz

\* C10: rank-lower(v) is the number of stored elements < v (the in-order
\* index of v if stored, its insertion index if not), rank-upper(v) the
\* number <= v; with no stored element >= v (resp. > v) it is size().  This
\* holds of rank_comp_bound on the augmented tree and of rank_lower_bound,
\* rank_upper_bound on the sentinel tree, both trees storing what was
\* inserted and not erased.
C10_RankCounts ==
    /\ Stored = model
    /\ SentinelStored = model
    /\ (op.name = "rank_comp_bound" /\ op.args[2] = CmpLower) =>
           RankLowerIs(ret, op.args[1], Stored, InOrder(Tree, root_), size(Tree))
    /\ (op.name = "rank_comp_bound" /\ op.args[2] = CmpUpper) =>
           RankUpperIs(ret, op.args[1], Stored, InOrder(Tree, root_), size(Tree))
    /\ op.name = "rank_lower_bound" =>
           RankLowerIs(ret, op.args[1], SentinelStored, SentinelInOrder,
                       sentinel_size(SentinelTree))
    /\ op.name = "rank_upper_bound" =>
           RankUpperIs(ret, op.args[1], SentinelStored, SentinelInOrder,
                       sentinel_size(SentinelTree))

\* a rank-lower query on the sentinel tree for an absent value strictly
\* inside the stored range, which rank_comp_bound answers alike
C10_Witness ==
    /\ op.name = "rank_lower_bound"
    /\ op.args[1] \notin SentinelStored
    /\ ret >= 2 /\ ret < sentinel_size(SentinelTree)
    /\ rank_comp_bound(Tree, op.args[1], CmpLower) = ret

\* the sentinel tree keeps the red-black shape (its own is_valid, lines
\* 182-196, on the heap)
SentinelShape ==
    /\ sentinel_heap[nil_].color = BLACK
    /\ sentinel_heap[nil_].left = nil_ /\ sentinel_heap[nil_].right = nil_
    /\ sentinel_root # nil_ => sentinel_heap[sentinel_root].color = BLACK
    /\ \A n \in Reach(SentinelTree, sentinel_root) :
          /\ sentinel_heap[n].color = RED =>
                /\ sentinel_heap[sentinel_heap[n].left].color = BLACK
                /\ sentinel_heap[sentinel_heap[n].right].color = BLACK
          /\ Cardinality(PathBlacks(SentinelTree, n)) = 1
          /\ \A m \in Reach(SentinelTree, sentinel_heap[n].left) :
                sentinel_heap[m].value < sentinel_heap[n].value
          /\ \A m \in Reach(SentinelTree, sentinel_heap[n].right) :
                sentinel_heap[m].value > sentinel_heap[n].value
          /\ sentinel_heap[n].left # nil_ => sentinel_heap[sentinel_heap[n].left].parent = n
          /\ sentinel_heap[n].right # nil_ => sentinel_heap[sentinel_heap[n].right].parent = n
    /\ DOMAIN sentinel_heap = Reach(SentinelTree, sentinel_root) \cup {nil_}
\* the 0-based position of v in a strictly increasing sequence io, if r is it
IndexIs(r, v, io) ==
    /\ r \in 0..(Len(io) - 1)
    /\ io[r + 1] = v
    /\ r = Cardinality({i \in 1..Len(io) : io[i] < v})

\* C11: distance_from_root(v) is the 0-based in-order index of v when v is
\* stored and numeric_limits<size_t>::max() when it is not, in both trees;
\* that value is never a valid index.
C11_DistanceFromRoot ==
    /\ Stored = model /\ SentinelStored = model
    /\ op.name = "distance_from_root" =>
          IF op.args[1] \in model
          THEN IndexIs(ret, op.args[1], InOrder(Tree, root_))
          ELSE ret = SIZE_MAX
    /\ op.name = "sentinel.distance_from_root" =>
          IF op.args[1] \in model
          THEN IndexIs(ret, op.args[1], SentinelInOrder)
          ELSE ret = SIZE_MAX
    /\ SIZE_MAX \notin 0..(size(Tree) - 1)
    /\ SIZE_MAX \notin 0..(sentinel_size(SentinelTree) - 1)

\* a stored value that is neither first nor last, in the augmented tree
C11_Witness ==
    /\ op.name = "distance_from_root"
    /\ op.args[1] \in model
    /\ ret >= 2 /\ ret < size(Tree) - 1
    /\ sentinel_distance_from_root(SentinelTree, op.args[1]) = ret

\* C12: the sentinel tree's distance(first, second) is max() when first or
\* second is not stored; when both are stored it is the number of stored x
\* with first <= x < second, which is index(second) - index(first) for
\* first < second and 0 otherwise.
C12_SentinelDistance ==
    op.name = "sentinel.distance" =>
        LET first  == op.args[1]
            second == op.args[2]
        IN  IF first \notin model \/ second \notin model
            THEN ret = SIZE_MAX
            ELSE /\ ret = Cardinality({x \in SentinelStored : first <= x /\ x < second})
                 /\ first < second =>
                        /\ IndexIs(ret + sentinel_distance_from_root(SentinelTree, first),
                                   second, SentinelInOrder)
                        /\ ret > 0
                 /\ first >= second => ret = 0

\* both stored, something stored between them
C12_Witness ==
    /\ op.name = "sentinel.distance"
    /\ op.args[1] \in model /\ op.args[2] \in model
    /\ ret >= 2
    /\ sentinel_size(SentinelTree) > ret + 1

\* C13: the augmented tree's distance(lo, hi) is 0 whenever hi < lo,
\* whatever is stored and whether or not lo and hi are.
C13_DescendingIsZero ==
    (op.name = "distance" /\ op.args[2] < op.args[1]) => ret = 0

\* hi < lo, neither stored, a stored value between them
C13_Witness ==
    /\ op.name = "distance"
    /\ op.args[2] < op.args[1]
    /\ op.args[1] \notin Stored /\ op.args[2] \notin Stored
    /\ \E x \in Stored : op.args[2] < x /\ x < op.args[1]
    /\ ret = 0

\* a well-formed q command was the last thing run_cli did
QueryDone == op.name = "q" /\ Len(op.args) = 2

\* C14 as stated: for right >= left the answer to q left right is the number
\* of integers inserted by the preceding k commands that lie in the
\* inclusive range [left, right].
C14_Original_InclusiveCount ==
    (QueryDone /\ op.args[2] >= op.args[1]) =>
        ret = Cardinality({x \in model : op.args[1] <= x /\ x <= op.args[2]})

\* C15: q left right with right < left emits 0: that step appends "0" to the
\* output, after a space if it is not the first result.
C15_DescendingEmitsZero ==
    [][(op'.name = "q" /\ Len(op'.args) = 2 /\ op'.args[2] < op'.args[1]) =>
          /\ ret' = 0
          /\ results' = Append(results, 0)
          /\ output' = output \o (IF results = << >> THEN << >> ELSE <<" ">>) \o <<"0">>
      ]_vars

\* descending bounds, both inserted before, with an inserted value between
C15_Witness ==
    /\ QueryDone
    /\ op.args[2] < op.args[1]
    /\ op.args[1] \in model /\ op.args[2] \in model
    /\ \E x \in model : op.args[2] < x /\ x < op.args[1]
    /\ ret = 0
    /\ Len(results) >= 2

\* C16: a k for an integer already stored changes nothing but the stream
\* position: no output, no diagnostic, the loop goes on, and the tree every
\* later query reads is the one before the command.
C16_DuplicateKeyIgnored ==
    [][(op'.name = "k" /\ Len(op'.args) = 1 /\ op'.args[1] \in model) =>
          /\ sentinel_root' = sentinel_root
          /\ sentinel_heap' = sentinel_heap
          /\ model' = model
          /\ output' = output /\ error' = error
          /\ first_output' = first_output /\ results' = results
          /\ ~returned'
          /\ SentinelStored' = model
      ]_vars

\* two k commands gave one stored integer, and a query after them counted it
C16_Witness ==
    /\ QueryDone
    /\ commands = 3
    /\ Cardinality(model) = 1
    /\ Len(results) = 1
    /\ ret = 1
    /\ ~returned

\* a command run_cli cannot read: a leading character other than k and q, or
\* a k or q with a numeric argument missing or unreadable
BadCommand(o) ==
    \/ o.name \notin {"ctor", "eof", "k", "q"}
    \/ o.name = "k" /\ Len(o.args) < 1
    \/ o.name = "q" /\ Len(o.args) < 2

\* C17: a command that cannot be read halts run_cli: it returns non-zero
\* with a diagnostic on the error stream, that step writes no output and
\* leaves the tree alone, and after a return nothing more is executed.
C17_BadCommandHalts ==
    /\ [](BadCommand(op) => returned /\ exit_code # 0 /\ error # << >>)
    /\ [][BadCommand(op') =>
             /\ output' = output /\ results' = results
             /\ sentinel_root' = sentinel_root /\ sentinel_heap' = sentinel_heap
             /\ Len(error') > Len(error)
         ]_vars
    /\ [][returned => UNCHANGED vars]_vars

\* halted on a q whose second bound could not be read, after two results
C17_Witness ==
    /\ returned /\ exit_code = 1
    /\ op.name = "q" /\ Len(op.args) = 1
    /\ Len(results) = 2
    /\ output[Len(output)] # "\n"
    /\ error = <<"Failed to read query bounds\n">>

\* the results each followed by sep but the last, which terminator follows
RECURSIVE Joined(_, _, _)
Joined(rs, sep, terminator) ==
    IF rs = << >> THEN << >>
    ELSE format(Head(rs))
           \o (IF Tail(rs) = << >> THEN terminator
               ELSE sep \o Joined(Tail(rs), sep, terminator))

\* C18: on input made of readable commands only run_cli returns 0 with
\* nothing on the error stream; the output is the query results in order,
\* one space between neighbours, and a newline at the end exactly when there
\* was a query (no query, no output at all).
C18_WellFormedOutput ==
    /\ (returned /\ op.name = "eof") =>
          /\ exit_code = 0
          /\ error = << >>
          /\ output = Joined(results, <<" ">>, <<"\n">>)
          /\ (results = << >>) = (output = << >>)
    /\ (returned /\ exit_code = 0) => op.name = "eof"
    /\ ~returned =>
          /\ error = << >>
          /\ output = Joined(results, <<" ">>, << >>)

\* returned 0 after three queries with different answers
C18_Witness ==
    /\ returned /\ exit_code = 0
    /\ Len(results) = 3
    /\ results[1] # results[2] /\ results[2] # results[3]
    /\ output[Len(output)] = "\n"

\* the second augmented tree read off the heap
OtherNodes  == Reach(OtherTree, other_root)
OtherStored == {heap[n].value : n \in OtherNodes}

\* everything a tree is: its root and the fields of each of its nodes
Structure(t) == [root |-> t.root, nodes |-> [n \in Reach(t, t.root) |-> t.h[n]]]

\* The steps of SpecCopy, told apart by what they leave.  The calls on the
\* first tree leave op and every variable of the second tree; the calls on
\* the second tree leave model.  A copy that changes nothing at all (an
\* empty tree assigned to an empty tree) is no step.
OtherLeft ==
    /\ other_root' = other_root
    /\ other_model' = other_model
    /\ other_alive' = other_alive

CopyStep == op'.name \in {"other.copy_ctor", "other.copy_assign"} /\ ~OtherLeft

\* C19: right after a copy construction or a copy assignment the copy and
\* the original hold the same values (and the original is as it was); from
\* then on an insert or erase on one of them leaves the values, structure
\* and validity of the other as they were; the two trees never share a node.
C19_CopiesIndependent ==
    /\ [](/\ Stored = model /\ is_valid(Tree)
          /\ other_alive =>
                /\ OtherStored = other_model
                /\ is_valid(OtherTree)
                /\ Nodes \cap OtherNodes = {})
    /\ [][CopyStep =>
             /\ OtherStored' = Stored
             /\ InOrder(OtherTree, other_root)' = InOrder(Tree, root_)
         ]_vars
    /\ [][OtherLeft => Structure(OtherTree)' = Structure(OtherTree)]_vars
    /\ [][model' = model => Structure(Tree)' = Structure(Tree)]_vars

\* a copy was assigned over an earlier copy, and since then each tree has
\* come to hold a value the other lacks
C19_Witness ==
    /\ op.name = "other.copy_assign"
    /\ other_alive
    /\ Stored \ OtherStored # {}
    /\ OtherStored \ Stored # {}
    /\ Cardinality(Stored) >= 2 /\ Cardinality(OtherStored) >= 2
    /\ \E n \in OtherNodes : n > 2 * MaxDeep

\* a sentinel tree read off a heap h: the nodes under n, nil being the
\* tree's own nil_
RECURSIVE ReachTo(_, _, _)
ReachTo(h, n, nil) ==
    IF n = nil THEN {}
    ELSE {n} \cup ReachTo(h, h[n].left, nil) \cup ReachTo(h, h[n].right, nil)

RECURSIVE BlacksTo(_, _, _)
BlacksTo(h, n, nil) ==
    IF n = nil THEN {0}
    ELSE {b + (IF h[n].color = BLACK THEN 1 ELSE 0) :
            b \in BlacksTo(h, h[n].left, nil) \cup BlacksTo(h, h[n].right, nil)}

StoredTo(h, root, nil) == {h[n].value : n \in ReachTo(h, root, nil)}

\* a valid sentinel tree: nil is BLACK with its child links on itself, the
\* root is BLACK under nil, every link stays within the tree or goes to
\* nil, and the nodes form a red-black search tree
ValidTo(h, root, nil) ==
    /\ h[nil].color = BLACK /\ h[nil].left = nil /\ h[nil].right = nil
    /\ root # nil => h[root].color = BLACK /\ h[root].parent = nil
    /\ \A n \in ReachTo(h, root, nil) :
          /\ {h[n].left, h[n].right} \subseteq ReachTo(h, root, nil) \cup {nil}
          /\ h[n].color = RED =>
                h[h[n].left].color = BLACK /\ h[h[n].right].color = BLACK
          /\ Cardinality(BlacksTo(h, n, nil)) = 1
          /\ \A m \in ReachTo(h, h[n].left, nil) : h[m].value < h[n].value
          /\ \A m \in ReachTo(h, h[n].right, nil) : h[m].value > h[n].value
          /\ h[n].left # nil => h[h[n].left].parent = n
          /\ h[n].right # nil => h[h[n].right].parent = n

\* the first trees and the second trees of both kinds, each pair as one
FirstEmptyValid ==
    /\ root_ = NULL /\ is_valid(Tree)
    /\ sentinel_root = nil_ /\ ValidTo(sentinel_heap, sentinel_root, nil_)

OtherEmptyValid ==
    /\ other_root = NULL /\ is_valid(OtherTree)
    /\ sentinel_other_root = other_nil
    /\ ValidTo(sentinel_heap, sentinel_other_root, other_nil)

\* C20: a move construction or move assignment from tree A into tree B
\* leaves A empty and valid and B valid and holding exactly the values A
\* held before the move, none of B's own; in the augmented tree and in the
\* sentinel tree.
C20_MoveTransfers ==
    /\ [][op'.name \in {"both.move_ctor", "both.move_assign"} =>
             /\ FirstEmptyValid'
             /\ OtherStored' = Stored
             /\ is_valid(OtherTree)'
             /\ StoredTo(sentinel_heap, sentinel_other_root, other_nil)' = SentinelStored
             /\ ValidTo(sentinel_heap, sentinel_other_root, other_nil)'
         ]_vars
    /\ [][op'.name = "both.move_assign_back" =>
             /\ OtherEmptyValid'
             /\ Stored' = OtherStored
             /\ is_valid(Tree)'
             /\ SentinelStored' = StoredTo(sentinel_heap, sentinel_other_root, other_nil)
             /\ ValidTo(sentinel_heap, sentinel_root, nil_)'
         ]_vars
    /\ [](/\ Stored = model /\ SentinelStored = model
          /\ ValidTo(sentinel_heap, sentinel_root, nil_)
          /\ other_alive =>
                /\ OtherStored = other_model
                /\ StoredTo(sentinel_heap, sentinel_other_root, other_nil) = other_model)

\* a move assignment into a tree that held a value of its own: the node it
\* now has for that value was allocated while its old one was still there
C20_Witness ==
    /\ op.name = "both.move_assign"
    /\ Cardinality(other_model) >= 2
    /\ \E n \in OtherNodes : n > MaxDeep
    /\ \E n \in ReachTo(sentinel_heap, sentinel_other_root, other_nil) : n > MaxDeep
    /\ sentinel_heap[sentinel_other_root].parent = other_nil

\* the nodes of the second sentinel tree
SentinelOtherNodes == ReachTo(sentinel_heap, sentinel_other_root, other_nil)

\* C21: after every public operation the allocated nodes are exactly the
\* nodes reachable from the roots of the live trees; an erase that finds its
\* value destroys exactly one node, and the destructor and move assignment
\* destroy exactly the nodes the tree owned, each once.
C21_OwnershipExact ==
    /\ [](/\ DOMAIN heap = Nodes \cup OtherNodes
          /\ Nodes \cap OtherNodes = {}
          /\ DOMAIN sentinel_heap =
                Reach(SentinelTree, sentinel_root) \cup {nil_}
                \cup (IF other_alive THEN SentinelOtherNodes \cup {other_nil} ELSE {}))
    /\ [][op'.name = "both.erase" =>
             /\ IF ret'[1]
                THEN \E z \in Nodes : DOMAIN heap' = DOMAIN heap \ {z}
                ELSE DOMAIN heap' = DOMAIN heap
             /\ IF ret'[2]
                THEN \E z \in Reach(SentinelTree, sentinel_root) :
                        DOMAIN sentinel_heap' = DOMAIN sentinel_heap \ {z}
                ELSE DOMAIN sentinel_heap' = DOMAIN sentinel_heap
         ]_vars
    /\ [][op'.name = "both.move_assign" =>
             /\ DOMAIN heap' = DOMAIN heap \ OtherNodes
             /\ DOMAIN sentinel_heap' = DOMAIN sentinel_heap \ SentinelOtherNodes
         ]_vars
    /\ [][op'.name = "both.other.dtor" =>
             /\ DOMAIN heap' = DOMAIN heap \ OtherNodes
             /\ DOMAIN sentinel_heap' =
                   DOMAIN sentinel_heap \ (SentinelOtherNodes \cup {other_nil})
         ]_vars
    /\ [][op'.name = "both.move_assign_back" =>
             /\ DOMAIN heap' = DOMAIN heap \ Nodes
             /\ DOMAIN sentinel_heap' =
                   DOMAIN sentinel_heap \ Reach(SentinelTree, sentinel_root)
         ]_vars

\* the second tree was destroyed holding a value the first tree holds too
C21_Witness ==
    /\ op.name = "both.other.dtor"
    /\ \E n \in Nodes : n > MaxDeep
    /\ Cardinality(Nodes) >= 2
    /\ DOMAIN heap = Nodes

\* C22: empty() is true exactly when no value is stored; an insert of a
\* value that is not stored and an erase of a value that is stored return
\* true, and once every inserted value is erased again, in whatever order,
\* the tree is empty and valid and holds no node.
C22_EmptyExact ==
    /\ [](/\ empty(Tree) <=> Stored = {}
          /\ empty(Tree) <=> model = {}
          /\ model = {} => is_valid(Tree) /\ size(Tree) = 0 /\ DOMAIN heap = {})
    /\ [][op'.name = "insert" /\ op'.args[1] \notin model => ret' = TRUE]_vars
    /\ [][op'.name = "erase" /\ op'.args[1] \in model => ret' = TRUE]_vars

\* the erase of the last stored value, which detaches the root
C22_Witness ==
    /\ op.name = "erase" /\ ret = TRUE
    /\ "det_single" \in cases
    /\ empty(Tree)
    /\ model = {}

\* the values the first n applications of ++ pass over, starting at it
RECURSIVE Visit(_, _, _)
Visit(t, it, n) ==
    IF it = end(t) \/ n = 0 THEN << >>
    ELSE <<value(t, it)>> \o Visit(t, next(t, it), n - 1)

\* the successor of node n as the links give it: the least node of the right
\* subtree, else the nearest ancestor that has n in its left subtree, else
\* none
SuccessorByLinks(n) ==
    IF heap[n].right # NULL
    THEN CHOOSE m \in Reach(Tree, heap[n].right) :
            \A k \in Reach(Tree, heap[n].right) : heap[m].value <= heap[k].value
    ELSE LET up == {a \in Nodes : n \in Reach(Tree, heap[a].left)}
         IN  IF up = {} THEN NULL
             ELSE CHOOSE a \in up : \A b \in up : a \in Reach(Tree, b)

\* C23: ++ applied from begin() reaches end() after exactly size() steps and
\* passes over every stored value once, in strictly ascending order; each
\* step goes to the successor the links give.
C23_IterationAscending ==
    /\ [](LET seen == Visit(Tree, begin(Tree), size(Tree) + 1)
          IN  /\ Len(seen) = size(Tree)
              /\ {seen[i] : i \in 1..Len(seen)} = model
              /\ \A i \in 1..(Len(seen) - 1) : seen[i] < seen[i + 1])
    /\ [](\A n \in Nodes : next(Tree, n) = SuccessorByLinks(n))
    /\ [][op'.name = "++" /\ iterating' =>
             current_' = SuccessorByLinks(current_)]_vars

\* a ++ that climbed over a right-child link before it met the ancestor it
\* stopped at
C23_Witness ==
    /\ op.name = "++" /\ iterating
    /\ current_ # NULL
    /\ \E p \in Nodes : /\ next(Tree, p) = current_
                        /\ heap[p].right = NULL
                        /\ heap[p].parent # current_

\* C24: end() differs from the iterator of every stored element, and -- on
\* end() of a tree that is not empty gives the iterator of the greatest
\* stored value.
C24_EndAndMaximum ==
    /\ [](/\ \A n \in Nodes : n # end(Tree)
          /\ \A v \in model : /\ lower_bound(Tree, v) # end(Tree)
                              /\ value(Tree, lower_bound(Tree, v)) = v
          /\ iterating /\ current_ # end(Tree) => current_ \in Nodes)
    /\ [][op'.name = "--" /\ current_ = end(Tree) /\ model # {} =>
             /\ iterating'
             /\ current_' \in Nodes
             /\ \A v \in model : v <= heap[current_'].value]_vars

\* a -- that went from end() down two right-child links
C24_Witness ==
    /\ op.name = "--" /\ iterating
    /\ current_ # NULL
    /\ next(Tree, current_) = end(Tree)
    /\ heap[current_].parent # NULL
    /\ heap[heap[current_].parent].parent # NULL

\* C25: * and ++ on end() fail their assertion; on a tree that is not empty
\* no ++ taken before end() and no -- taken after begin() fails one, and
\* neither does * before end().
C25_IteratorAssertions ==
    /\ [][op'.name = "*" /\ current_ = end(Tree) =>
             ret' = ASSERT_FAILED /\ ~iterating']_vars
    /\ [][op'.name = "++" /\ current_ = end(Tree) => ~iterating']_vars
    /\ [][op'.name = "*" /\ current_ # end(Tree) =>
             ret' = heap[current_].value /\ iterating']_vars
    /\ [][op'.name = "++" /\ current_ # end(Tree) => iterating']_vars
    /\ [][op'.name = "--" /\ model # {} /\ current_ # begin(Tree) =>
             iterating']_vars

\* a ++ that failed on end() of a tree holding three values or more
C25_Witness ==
    /\ op.name = "++" /\ ~iterating
    /\ ret = ASSERT_FAILED
    /\ Cardinality(model) >= 3

\* the calls that are declared const, and the steps of an iterator
ConstCalls ==
    {"size", "empty", "is_valid", "distance", "distance_from_root",
     "rank_comp_bound", "lower_bound", "upper_bound", "begin", "end",
     "++", "--", "*", "~iterator"}

RECURSIVE OwnReach(_, _, _, _)
OwnReach(h, n, nil, foreign) ==
    IF n \in {nil, foreign} THEN {}
    ELSE {n} \cup OwnReach(h, h[n].left, nil, foreign)
             \cup OwnReach(h, h[n].right, nil, foreign)

\* every absent-child link of the tree at root, and its root's parent link,
\* is nil, and no link is foreign
LinksOwnNil(h, root, nil, foreign) ==
    /\ root # foreign
    /\ root # nil => h[root].parent = nil
    /\ \A n \in OwnReach(h, root, nil, foreign) :
          /\ {h[n].left, h[n].right} \subseteq OwnReach(h, root, nil, foreign) \cup {nil}
          /\ h[n].parent \in OwnReach(h, root, nil, foreign) \cup {nil}
          /\ foreign \notin {h[n].left, h[n].right, h[n].parent}

\* the links of the sentinel at nil are on itself
NilOnItself(h, nil) == h[nil].left = nil /\ h[nil].right = nil /\ h[nil].parent = nil

\* C27 as stated: after a copy construction, a move construction or a move
\* assignment every absent-child link and the root's parent link in the
\* destination are the destination's own nil_, none is the source's, and the
\* links of the source's nil_ are on itself.
C27_Original_OwnSentinel ==
    /\ op.name \in {"sentinel.copy_ctor", "sentinel.move_ctor", "sentinel.move_assign"} =>
          /\ LinksOwnNil(sentinel_heap, sentinel_other_root, other_nil, nil_)
          /\ NilOnItself(sentinel_heap, nil_)
    /\ op.name = "sentinel.move_assign_back" =>
          /\ LinksOwnNil(sentinel_heap, sentinel_root, nil_, other_nil)
          /\ NilOnItself(sentinel_heap, other_nil)

\* C27, amended: the two trees never share a sentinel: at all times, and so
\* after a copy construction, a move construction and a move assignment,
\* every absent-child link and the root's parent link of a tree
\* are that tree's own nil_ and no link is the other tree's; a move leaves
\* the source empty with the links of its nil_ on itself; a copy leaves the
\* source as it was, the child links of its nil_ on itself and the parent
\* link of its nil_ where the last erase put it.
C27_OwnSentinel ==
    /\ [](/\ LinksOwnNil(sentinel_heap, sentinel_root, nil_, other_nil)
          /\ sentinel_heap[nil_].left = nil_ /\ sentinel_heap[nil_].right = nil_
          /\ other_alive =>
                /\ LinksOwnNil(sentinel_heap, sentinel_other_root, other_nil, nil_)
                /\ sentinel_heap[other_nil].left = other_nil
                /\ sentinel_heap[other_nil].right = other_nil)
    /\ [][op'.name \in {"sentinel.move_ctor", "sentinel.move_assign"} =>
             sentinel_root' = nil_ /\ NilOnItself(sentinel_heap', nil_)]_vars
    /\ [][op'.name = "sentinel.move_assign_back" =>
             sentinel_other_root' = other_nil /\ NilOnItself(sentinel_heap', other_nil)
         ]_vars
    /\ [][op'.name = "sentinel.copy_ctor" =>
             /\ sentinel_root' = sentinel_root
             /\ \A a \in Reach(SentinelTree, sentinel_root) \cup {nil_} :
                   sentinel_heap'[a] = sentinel_heap[a]
             /\ StoredTo(sentinel_heap, sentinel_other_root, other_nil)' = SentinelStored
             /\ SentinelOtherNodes' \cap Reach(SentinelTree, sentinel_root) = {}
         ]_vars

\* a copy construction from a tree whose nil_ has its parent link on a node,
\* left there by an erase
C27_Witness ==
    /\ op.name = "sentinel.copy_ctor"
    /\ sentinel_heap[nil_].parent # nil_
    /\ Cardinality(SentinelOtherNodes) >= 2
    /\ sentinel_heap[sentinel_other_root].parent = other_nil

\* C28: is_valid() is true exactly when the root is BLACK (or there is
\* none), no RED node has a RED child and every path from the root to an
\* absent child carries the same number of BLACK nodes, on every shape and
\* colouring, whatever the order of the keys and the stored subtree sizes.
C28_ValidatorExact ==
    /\ is_valid(Tree) <=>
          /\ root_ # NULL => heap[root_].color = BLACK
          /\ \A n \in Nodes : \A k \in {heap[n].left, heap[n].right} \ {NULL} :
                ~(heap[n].color = RED /\ heap[k].color = RED)
          /\ Cardinality(PathBlacks(Tree, root_)) = 1
    /\ op.name = "is_valid" => ret = is_valid(Tree)

\* is_valid() returned true for a tree of four nodes, one of them RED, with
\* its keys in descending order and its subtree sizes all 0
C28_Witness ==
    /\ op.name = "is_valid" /\ ret = TRUE
    /\ Cardinality(Nodes) >= 4
    /\ \E n \in Nodes : heap[n].color = RED
    /\ \E n \in Nodes : heap[n].left # NULL /\ heap[heap[n].left].value > heap[n].value
    /\ heap[root_].subtree_size = 0

\* C29: after every insert and erase the parent links agree with the child
\* links: each child's parent is the node that holds it, the root's parent
\* is null, and of a tree that is not empty exactly one node has a null
\* parent.
C29_ParentLinks ==
    /\ root_ # NULL => heap[root_].parent = NULL
    /\ \A n \in Nodes : \A k \in {heap[n].left, heap[n].right} \ {NULL} :
          heap[k].parent = n
    /\ root_ # NULL => Cardinality({n \in Nodes : heap[n].parent = NULL}) = 1
    /\ \A n \in Nodes \ {root_} :
          /\ heap[n].parent \in Nodes
          /\ n \in {heap[heap[n].parent].left, heap[heap[n].parent].right}

\* an erase that took the successor from deeper in the right subtree and
\* ran the fix-up, leaving a root with two subtrees
C29_Witness ==
    /\ op.name = "erase" /\ ret = TRUE
    /\ "det_succ_deep" \in cases
    /\ "er_fixup" \in cases
    /\ heap[root_].left # NULL /\ heap[root_].right # NULL
    /\ \E n \in Nodes : heap[n].parent # NULL /\ heap[heap[n].parent].parent # NULL

InnerRotations == {"ins_inner_left", "ins_inner_right"}
OuterRotations == {"ins_outer_left", "ins_outer_right"}

\* C30: one insert rotates at most twice: once at the grandparent when the
\* uncle is not RED, after one more at the parent when the new node is an
\* inner grandchild; an insert that only met RED uncles rotates not at all
\* and moves no link between the nodes that were there.
C30_InsertRotations ==
    /\ [](op.name = "insert" =>
             /\ "rotate_3" \notin cases
             /\ Cardinality(cases \cap InnerRotations) <= 1
             /\ Cardinality(cases \cap OuterRotations) <= 1
             /\ "rotate_1" \in cases <=> cases \cap OuterRotations # {}
             /\ "rotate_2" \in cases <=> cases \cap InnerRotations # {}
             /\ cases \cap InnerRotations # {} => cases \cap OuterRotations # {})
    /\ [][op'.name = "insert" /\ "rotate_1" \notin cases' =>
             /\ root_ # NULL => root_' = root_
             /\ \A n \in Nodes :
                   /\ heap'[n].parent = heap[n].parent
                   /\ heap[n].left # NULL => heap'[n].left = heap[n].left
                   /\ heap[n].right # NULL => heap'[n].right = heap[n].right
         ]_vars

\* an insert that recoloured under a RED uncle, went on from the grandparent
\* and rotated twice there
C30_Witness ==
    /\ op.name = "insert" /\ ret = TRUE
    /\ "ins_red_uncle" \in cases
    /\ "rotate_2" \in cases
    /\ cases \cap InnerRotations # {}

\* the node that holds v
NodeOf(v) == CHOOSE n \in Nodes : heap[n].value = v

\* the node an erase of v takes out of the structure: the node of v when it
\* has a child missing, else the node of the next greater value
Removed(v) ==
    IF heap[NodeOf(v)].left = NULL \/ heap[NodeOf(v)].right = NULL THEN NodeOf(v)
    ELSE CHOOSE m \in Reach(Tree, heap[NodeOf(v)].right) :
            \A k \in Reach(Tree, heap[NodeOf(v)].right) : heap[m].value <= heap[k].value

FixupLabels ==
    {"er_fixup", "er_loop", "er_loop_again", "er_black_children", "er_no_parent",
     "er_red_sibling", "rotate_1", "rotate_2", "rotate_3"}

\* C31: when the node an erase takes out of the structure is RED, the erase
\* runs no fix-up: it rotates nothing and recolours nothing but the
\* successor, which takes the colour of the erased node, and the tree is a
\* valid red-black tree afterwards.
C31_RedRemovedNoFixup ==
    [][(/\ op'.name = "erase"
        /\ op'.args[1] \in model
        /\ heap[Removed(op'.args[1])].color = RED) =>
          /\ ret' = TRUE
          /\ cases' \cap FixupLabels = {}
          /\ \A n \in Nodes \ {NodeOf(op'.args[1])} :
                heap'[n].color = IF n = Removed(op'.args[1])
                                 THEN heap[NodeOf(op'.args[1])].color
                                 ELSE heap[n].color
          /\ RootBlack' /\ NoRedRed' /\ BlackHeightUniform'
          /\ is_valid(Tree)'
      ]_vars

\* an erase that moved a RED successor from deep in the right subtree into
\* the place of a BLACK node and ran no fix-up
C31_Witness ==
    /\ op.name = "erase" /\ ret = TRUE
    /\ "det_succ_deep" \in cases
    /\ cases \cap FixupLabels = {}
    /\ Cardinality(Nodes) >= 4

\* the node with the least value among those under n, nil being the absent
\* child
LeastUnder(h, n, nil) ==
    CHOOSE m \in ReachTo(h, n, nil) : \A k \in ReachTo(h, n, nil) : h[m].value <= h[k].value

\* In r.t, the tree the detaching left: s has taken the place z had in h,
\* with z's parent, left child and colour, and the right child s had is
\* where s was.
TookPlace(h, r, z, s, nil) ==
    /\ r.t.h[s].parent = h[z].parent
    /\ IF h[z].parent = nil THEN r.t.root = s
       ELSE IF h[h[z].parent].left = z THEN r.t.h[h[z].parent].left = s
       ELSE r.t.h[h[z].parent].right = s
    /\ r.t.h[s].left = h[z].left
    /\ r.t.h[h[z].left].parent = s
    /\ r.t.h[s].color = h[z].color
    /\ IF h[s].parent = z
       THEN /\ r.t.h[s].right = h[s].right
            /\ h[s].right # nil => r.t.h[h[s].right].parent = s
       ELSE /\ r.t.h[h[s].parent].left = h[s].right
            /\ h[s].right # nil => r.t.h[h[s].right].parent = h[s].parent
            /\ r.t.h[s].right = h[z].right
            /\ r.t.h[h[z].right].parent = s

\* C32: detaching a node with two children, before any fix-up, puts the node
\* of the next greater value in its place, with its parent, its left child
\* and its colour, and puts the right child that node had where that node
\* was; in the augmented tree and in the sentinel tree.
C32_SuccessorTakesPlace ==
    /\ \A z \in {n \in Nodes : heap[n].left # NULL /\ heap[n].right # NULL} :
          TookPlace(heap, detach_node(Tree, z), z,
                    LeastUnder(heap, heap[z].right, NULL), NULL)
    /\ \A z \in {n \in ReachTo(sentinel_heap, sentinel_root, nil_) :
                    sentinel_heap[n].left # nil_ /\ sentinel_heap[n].right # nil_} :
          TookPlace(sentinel_heap, detach_erase_target(SentinelTree, z), z,
                    LeastUnder(sentinel_heap, sentinel_heap[z].right, nil_), nil_)

\* both trees hold a node with two children whose successor lies deeper
\* than its right child and has a right child of its own, which the
\* detaching puts under the successor's parent
C32_Witness ==
    /\ \E z \in Nodes :
          /\ heap[z].left # NULL /\ heap[z].right # NULL
          /\ heap[LeastUnder(heap, heap[z].right, NULL)].parent # z
          /\ heap[LeastUnder(heap, heap[z].right, NULL)].right # NULL
          /\ detach_node(Tree, z).t.h[
                 heap[LeastUnder(heap, heap[z].right, NULL)].parent].left
                = heap[LeastUnder(heap, heap[z].right, NULL)].right
    /\ \E z \in ReachTo(sentinel_heap, sentinel_root, nil_) :
          /\ sentinel_heap[z].left # nil_ /\ sentinel_heap[z].right # nil_
          /\ sentinel_heap[LeastUnder(sentinel_heap, sentinel_heap[z].right, nil_)].parent # z
          /\ sentinel_heap[LeastUnder(sentinel_heap, sentinel_heap[z].right, nil_)].right
                # nil_
          /\ detach_erase_target(SentinelTree, z).t.h[
                 sentinel_heap[LeastUnder(sentinel_heap, sentinel_heap[z].right,
                                          nil_)].parent].left
                = sentinel_heap[LeastUnder(sentinel_heap, sentinel_heap[z].right,
                                           nil_)].right

\* the child of n that a rotation of n to side dir lifts
PivotOf(n, dir) == IF dir = LEFT THEN heap[n].right ELSE heap[n].left

\* the child of the pivot that such a rotation hands to n
InwardOf(n, dir) ==
    IF dir = LEFT THEN heap[PivotOf(n, dir)].left ELSE heap[PivotOf(n, dir)].right

\* r is the tree after rotating n to side dir
RotationLocal(r, n, dir) ==
    /\ InOrder(r, r.root) = InOrder(Tree, root_)
    /\ \A k \in Nodes \ {n, PivotOf(n, dir)} :
          r.h[k].subtree_size = heap[k].subtree_size
    /\ \A k \in Nodes \ {n, PivotOf(n, dir), InwardOf(n, dir), heap[n].parent} :
          r.h[k] = heap[k]
    /\ \A k \in Nodes : r.h[k].color = heap[k].color /\ r.h[k].value = heap[k].value
    /\ DOMAIN r.h = DOMAIN heap
    /\ r.root = IF n = root_ THEN PivotOf(n, dir) ELSE root_

\* C33: a rotation of a tree with consistent sizes keeps the in-order
\* sequence of the values, changes the stored size of no node but the
\* rotated one and the pivot, and leaves every field of every node other
\* than the rotated node, the pivot, the grandchild that changes sides and
\* the rotated node's parent as it was.
C33_RotationLocal ==
    \A n \in Nodes : \A dir \in {LEFT, RIGHT} :
        PivotOf(n, dir) # NULL => RotationLocal(rotate(Tree, n, dir), n, dir)

\* a tree with a node below the root whose pivot has an inward child, which
\* the rotation puts under the rotated node
C33_Witness ==
    \E n \in Nodes \ {root_} :
        /\ PivotOf(n, LEFT) # NULL
        /\ InwardOf(n, LEFT) # NULL
        /\ rotate(Tree, n, LEFT).h[n].right = InwardOf(n, LEFT)
        /\ rotate(Tree, n, LEFT).h[n].subtree_size < heap[n].subtree_size
        /\ Cardinality(Nodes) >= 8

\* ------------------------------------------------- the fix-ups step by step
\* insert and erase with every activation of fix_insert_root and every turn
\* of the loop of erase_fixup as a step of its own.  fixing is where the
\* call in progress is, fix_node and fix_parent are the arguments of the
\* activation, or the loop's variables.
MaxFix == 6
FixVal == 1..MaxFix

\* line 596 is reached from fix_insert_root(node): the parent is RED, the
\* uncle is RED, and there is a grandparent
fix_insert_recurses(t, node) ==
    /\ parent(t, node) # NULL
    /\ color(t, parent(t, node)) = RED
    /\ uncle(t, node) # NULL
    /\ color(t, uncle(t, node)) = RED
    /\ grandparent(t, node) # NULL

\* lines 591-595: what is painted before fix_insert_root(g) is called
fix_insert_repaint(t, node) ==
    set_color(set_color(set_color(Mark(t, "ins_red_uncle"), parent(t, node), BLACK),
                        uncle(t, node), BLACK),
              grandparent(t, node), RED)

FixStep(t, r, f, n, p) ==
    /\ root_' = t.root
    /\ heap' = t.h
    /\ cases' = t.tr
    /\ ret' = r
    /\ fixing' = f
    /\ fix_node' = n
    /\ fix_parent' = p
    /\ UNCHANGED <<sentinel_root, sentinel_heap, cli_vars, other_vars, iter_vars,
                   bench_vars, reference>>

\* lines 263-271: the new node is linked in, fix_insert_root(new_node) is
\* about to run
InsertLinks(mk, par, go_left) ==
    FixStep(IF par = NULL THEN set_root(mk.t, mk.node)
            ELSE IF go_left THEN set_left_child(mk.t, par, mk.node)
            ELSE set_right_child(mk.t, par, mk.node),
            ret, "fix_insert", mk.node, NULL)

InsertLocated(v, result) ==
    IF result.exists THEN FixStep(Tree, FALSE, "none", NULL, NULL)
    ELSE InsertLinks(make_node(Tree, v, RED, NULL, NULL, result.parent),
                     result.parent, result.go_left)

InsertCalled(v) ==
    /\ fixing = "none"
    /\ op' = [name |-> "insert", args |-> <<v>>]
    /\ model' = model \cup {v}
    /\ InsertLocated(v, locate(Tree, v))

\* one activation of fix_insert_root: it calls itself on the grandparent,
\* or it is the last one, and update_size_upwards(new_node) and the return
\* follow
FixInsertActivation ==
    /\ fixing = "fix_insert"
    /\ UNCHANGED <<op, model>>
    /\ IF fix_insert_recurses(Tree, fix_node)
       THEN FixStep(fix_insert_repaint(Tree, fix_node), ret, "fix_insert",
                    grandparent(Tree, fix_node), NULL)
       ELSE FixStep(update_size_upwards(fix_insert_root(Tree, fix_node),
                                        CHOOSE n \in Nodes : heap[n].value = op.args[1]),
                    TRUE, "none", NULL, NULL)

\* lines 285-290: z is deleted; erase_fixup is entered if a BLACK node was
\* removed
EraseDetached(detach, z) ==
    IF detach.removed_color = BLACK
    THEN FixStep(Mark(delete_node(detach.t, z), "er_fixup"), ret, "erase_fixup",
                 detach.fixup, detach.parent)
    ELSE FixStep(delete_node(detach.t, z), TRUE, "none", NULL, NULL)

EraseLocated(result) ==
    IF ~result.exists THEN FixStep(Tree, FALSE, "none", NULL, NULL)
    ELSE EraseDetached(detach_node(Tree, result.parent), result.parent)

EraseCalled(v) ==
    /\ fixing = "none"
    /\ op' = [name |-> "erase", args |-> <<v>>]
    /\ model' = model \ {v}
    /\ EraseLocated(locate(Tree, v))

\* what a turn of the loop left in node and parent
EraseFixupTurned(r) == FixStep(r.t, ret, "erase_fixup", r.node, r.parent)

\* one turn of the loop of erase_fixup, or the paint and the return that
\* follow it
EraseFixupTurn ==
    /\ fixing = "erase_fixup"
    /\ UNCHANGED <<op, model>>
    /\ IF fix_node # root_ /\ is_black(Tree, fix_node)
       THEN EraseFixupTurned(
                IF fix_parent # NULL /\ fix_node = left_child(Tree, fix_parent)
                THEN erase_fixup_direction(Tree, fix_node, fix_parent, LEFT)
                ELSE erase_fixup_direction(Tree, fix_node, fix_parent, RIGHT))
       ELSE FixStep(paint(Tree, fix_node, BLACK), TRUE, "none", NULL, NULL)

NextFix ==
    \/ \E v \in FixVal : InsertCalled(v)
    \/ FixInsertActivation
    \/ \E v \in FixVal : EraseCalled(v)
    \/ EraseFixupTurn

SpecFix == Init /\ [][NextFix]_vars

\* links to the root from n in the heap h
RECURSIVE LevelIn(_, _)
LevelIn(h, n) == IF h[n].parent = NULL THEN 0 ELSE 1 + LevelIn(h, h[n].parent)

\* fix_insert_root calls itself on a node nearer to the root
FixInsertClimbs ==
    fixing = "fix_insert" /\ fixing' = "fix_insert" =>
        /\ fix_node' = grandparent(Tree, fix_node)
        /\ LevelIn(heap', fix_node') < LevelIn(heap, fix_node)

\* a turn of the loop of erase_fixup leaves in node the parent of the node
\* it started with, and in parent the parent of that, or leaves the root in
\* node; with the root in node the next test of the loop ends it
EraseFixupClimbs ==
    fixing = "erase_fixup" /\ fixing' = "erase_fixup" =>
        \/ /\ fix_node' = fix_parent
           /\ fix_parent # NULL
           /\ fix_node # NULL => heap'[fix_node].parent = fix_node'
           /\ fix_parent' = heap'[fix_node'].parent
        \/ fix_node' = root_'

EraseFixupEndsAtRoot ==
    fixing = "erase_fixup" /\ fix_node = root_ => fixing' = "none"

\* links to the root from the node of erase_fixup, which may be nullptr
FixupLevel == IF fix_parent = NULL THEN 0 ELSE 1 + LevelIn(heap, fix_parent)

\* a bound on the steps the call in progress has left: 0 once it has
\* returned, 1 when the next test of the loop of erase_fixup ends it
StepsLeft ==
    IF fixing = "none" THEN 0
    ELSE IF fixing = "fix_insert" THEN 1 + LevelIn(heap, fix_node)
    ELSE IF fix_node # root_ /\ is_black(Tree, fix_node) THEN 2 + FixupLevel
    ELSE 1

\* C34: every insert and every erase returns: each step of a call in
\* progress lowers a natural number, the bound on the steps left.  An
\* activation of the insert fix-up calls the next one on a node strictly
\* nearer to the root or is the last one; a turn of the loop of the erase
\* fix-up moves its node to that node's parent, or sets it to the root,
\* after which the loop ends.
C34_FixupsTerminate ==
    [][/\ FixInsertClimbs
       /\ EraseFixupClimbs
       /\ EraseFixupEndsAtRoot
       /\ fixing # "none" => StepsLeft' >= 0 /\ StepsLeft' < StepsLeft]_vars

\* the loop of erase_fixup has turned once, rotated the parent under a RED
\* sibling, moved its node one level up to that parent, which is not the
\* root, and has not returned yet
C34_Witness ==
    /\ fixing = "erase_fixup"
    /\ {"er_red_sibling", "er_black_children"} \subseteq cases
    /\ fix_node # root_
    /\ fix_node # NULL
    /\ heap[fix_node].parent = fix_parent

\* the sentinel at nil is BLACK and both its child links are on itself
NilBlackOnItself(h, nil) ==
    h[nil].color = BLACK /\ h[nil].left = nil /\ h[nil].right = nil

\* C35: after every insert, erase, copy construction, move construction and
\* move assignment of the sentinel trees, the nil_ of every live tree is
\* BLACK and its left and right links are on itself (its parent link is
\* whatever the last erase left in it).
C35_NilBlackSelfLinked ==
    /\ NilBlackOnItself(sentinel_heap, nil_)
    /\ other_alive => NilBlackOnItself(sentinel_heap, other_nil)

\* an erase has returned with the parent link of nil_ on a node of the tree
C35_Witness ==
    /\ op.name = "sentinel.erase"
    /\ ret = TRUE
    /\ sentinel_heap[nil_].parent \notin {nil_, other_nil}
    /\ sentinel_heap[nil_].parent \in DOMAIN sentinel_heap
    /\ other_alive
    /\ sentinel_other_root # other_nil

\* the tree under n in the heap h, position by position: an absent child is
\* the empty tuple, a node is its left subtree, its value, colour and
\* stored size, and its right subtree
RECURSIVE Picture(_, _)
Picture(h, n) ==
    IF n = NULL THEN << >>
    ELSE <<Picture(h, h[n].left),
           [value |-> h[n].value, color |-> h[n].color, size |-> h[n].subtree_size],
           Picture(h, h[n].right)>>

\* the stored size of every node under n is 1 + the sizes of its children,
\* and each child's parent link is on the node it hangs from
RECURSIVE WellLinked(_, _)
WellLinked(h, n) ==
    \/ n = NULL
    \/ /\ h[n].subtree_size =
              1 + (IF h[n].left = NULL THEN 0 ELSE h[h[n].left].subtree_size)
                + (IF h[n].right = NULL THEN 0 ELSE h[h[n].right].subtree_size)
       /\ h[n].left # NULL => h[h[n].left].parent = n
       /\ h[n].right # NULL => h[h[n].right].parent = n
       /\ WellLinked(h, h[n].left)
       /\ WellLinked(h, h[n].right)

\* c is what clone_subtree(root_, nullptr) returned for the tree as it is
DeepCopy(c) ==
    /\ Picture(c.t.h, c.node) = Picture(heap, root_)
    /\ WellLinked(c.t.h, c.node)
    /\ c.node # NULL => c.t.h[c.node].parent = NULL
    /\ (c.node = NULL) = (root_ = NULL)
    /\ Reach(c.t, c.node) \cap Nodes = {}
    /\ \A n \in DOMAIN heap : c.t.h[n] = heap[n]

\* C36: the copy clone_subtree makes of a tree has the shape of the source,
\* with the source's value and colour at every position, stored sizes that
\* are 1 + the children's at every node, every child's parent link on its
\* parent and no parent for the root; it shares no node with the source,
\* which is left as it was.
C36_CloneExact == DeepCopy(clone_subtree(Tree, root_, NULL))

\* a tree of three levels and both colours, of which the clone has its own
\* root with two children
C36_Witness ==
    /\ Cardinality(Nodes) >= 7
    /\ \E n \in Nodes : heap[n].color = RED /\ heap[n].parent # root_
    /\ clone_subtree(Tree, root_, NULL).node \notin Nodes \cup {NULL}
    /\ clone_subtree(Tree, root_, NULL).t.h[clone_subtree(Tree, root_, NULL).node].subtree_size
           = Cardinality(Nodes)

\* C37: on every workload of inserts and range queries run_rb_tree and
\* run_std_set have the same checksum: a query with b > a adds to each the
\* number of elements of the set from upper_bound(a) up to upper_bound(b),
\* which is rank_upper_bound(b) - rank_upper_bound(a) on the tree, and a
\* query with b <= a adds 0 to each.
C37_ChecksumsAgree ==
    /\ [](rb_checksum = set_checksum)
    /\ [][op'.name = "bench.q" =>
             /\ rb_checksum' - rb_checksum = set_checksum' - set_checksum
             /\ op'.args[2] > op'.args[1] =>
                   /\ rank_upper_bound(SentinelTree, op'.args[2])
                          - rank_upper_bound(SentinelTree, op'.args[1])
                      = Cardinality({i \in 1..Cardinality(model) :
                                        /\ i >= std_upper_bound(model, op'.args[1])
                                        /\ i < std_upper_bound(model, op'.args[2])})
                   /\ rb_checksum' - rb_checksum
                      = Cardinality({x \in model : op'.args[1] < x /\ x <= op'.args[2]})
             /\ op'.args[2] <= op'.args[1] => rb_checksum' = rb_checksum
         ]_vars

\* the last operation of a workload was a query from a stored value up to a
\* stored value, two elements apart, after an earlier query had counted
\* something
C37_Witness ==
    /\ op.name = "bench.q"
    /\ operations = MaxOps
    /\ op.args[1] \in model /\ op.args[2] \in model
    /\ std_set_result(model, op.args[1], op.args[2]) = 2
    /\ rb_checksum > 2

\* C38 as stated: on every text the interpreter and the std::set program
\* write the same standard output and both return 0 or both return
\* something else.
C38_Original_SameAsReference ==
    /\ returned = reference.returned
    /\ returned =>
          /\ output = reference.output
          /\ (exit_code = 0) = (reference.status = 0)

\* the tree under n in the heap h, nil standing for an absent child: each
\* node's left subtree, value, colour and right subtree
RECURSIVE Coloured(_, _, _)
Coloured(h, n, nil) ==
    IF n = nil THEN << >>
    ELSE <<Coloured(h, h[n].left, nil),
           [value |-> h[n].value, color |-> h[n].color],
           Coloured(h, h[n].right, nil)>>

\* the queries of the two trees give the same for v
SameAnswers(v) ==
    /\ rank_comp_bound(Tree, v, CmpLower) = rank_lower_bound(SentinelTree, v)
    /\ rank_comp_bound(Tree, v, CmpUpper) = rank_upper_bound(SentinelTree, v)
    /\ distance_from_root(Tree, v) = sentinel_distance_from_root(SentinelTree, v)

\* C39: fed the same inserts and erases, the augmented tree and the
\* sentinel tree return the same booleans and have after every call the
\* same shape with the same value and colour at every position, and their
\* size, rank-lower, rank-upper and distance_from_root agree for every
\* value.
C39_TreesAgree ==
    /\ op.name \in {"both.insert", "both.erase"} => ret[1] = ret[2]
    /\ Coloured(heap, root_, NULL) = Coloured(sentinel_heap, sentinel_root, nil_)
    /\ size(Tree) = sentinel_size(SentinelTree)
    /\ \A v \in 0..(MaxPair + 1) : SameAnswers(v)

\* an erase of a stored value that left both trees with three levels and a
\* RED node over two children
C39_Witness ==
    /\ op.name = "both.erase"
    /\ ret = <<TRUE, TRUE>>
    /\ \E n \in Nodes : heap[n].color = RED /\ heap[n].left # NULL /\ heap[n].right # NULL
    /\ Cardinality(Nodes) >= 5
    /\ Cardinality(Reach(SentinelTree, sentinel_root)) = Cardinality(Nodes)

\* rank-lower and rank-upper of the augmented tree as it is
RankLower(v) == rank_comp_bound(Tree, v, CmpLower)
RankUpper(v) == rank_comp_bound(Tree, v, CmpUpper)

\* C40: on every reachable tree and for every value v, rank-upper(v) less
\* rank-lower(v) is 1 when v is stored and 0 when it is not, neither rank
\* exceeds size(), and neither rank decreases when v grows (from each value
\* to the next, hence from each to every greater one).
C40_RankRelations ==
    \A v \in 0..(MaxDeep + 1) :
        /\ RankUpper(v) - RankLower(v) = IF v \in Stored THEN 1 ELSE 0
        /\ RankLower(v) <= size(Tree)
        /\ RankUpper(v) <= size(Tree)
        /\ RankLower(v) <= RankLower(v + 1)
        /\ RankUpper(v) <= RankUpper(v + 1)

\* a tree of five values or more with a stored value and an absent one
\* strictly inside its range, and the ranks of the two
C40_Witness ==
    /\ Cardinality(Stored) >= 5
    /\ \E v \in Stored :
          RankLower(v) >= 2 /\ RankUpper(v) = RankLower(v) + 1 /\ RankUpper(v) < size(Tree)
    /\ \E w \in DeepVal \ Stored :
          RankLower(w) >= 1 /\ RankUpper(w) = RankLower(w) /\ RankUpper(w) < size(Tree)

====
